---- MODULE Spec2Model ----
(***************************************************************************)
(* code-memory: the store (db.py), the source indexer (parser.py) and the  *)
(* documentation indexer (doc_parser.py) as a state machine.               *)
(*                                                                         *)
(* The state is the project tree on disk, the committed content of         *)
(* code_memory.db, the connection a process holds, and the activation      *)
(* record of a running index_directory call.  index_directory advances     *)
(* one commit point at a time, so that every state is one an observer of   *)
(* the database file can see.                                              *)
(***************************************************************************)
EXTENDS Integers, Sequences, FiniteSets, TLC

VARIABLES disk, db, conn, ix, ret, hist

vars == <<disk, db, conn, ix, ret, hist>>

(***************************************************************************)
(* Bounds of the exploration.                                              *)
(***************************************************************************)
MaxTime == 2      \* on-disk modification times range over 1..MaxTime
MaxEdits == 1     \* changes made to the tree in one behaviour
MaxFaults == 1    \* storage failures injected in one behaviour

(***************************************************************************)
(* Values.                                                                 *)
(***************************************************************************)
None == 0                     \* Python None / SQL NULL for integer columns
NoTitle == "<none>"           \* section_title None (preamble)

Models == {"M1", "M2"}        \* values of EMBEDDING_MODEL_NAME

\* get_embedding_dim(): the native dimension of the configured model
get_embedding_dim(m) == IF m = "M1" THEN 384 ELSE 768

CodePath == "a.py"
DocPath == "README.md"

\* index_directory's walk: sorted(files) of the single directory; both
\* extensions are in _SOURCE_EXTENSIONS
file_list == <<DocPath, CodePath>>

\* _load_language(ext): a grammar exists for .py, none for .md
_load_language(path) == path = CodePath

\* index_doc_directory's walk: files with an extension in DOC_EXTENSIONS
doc_file_list == <<DocPath>>

CodeVersions == 1 .. 3
DocVersions == 1 .. 2
Versions(path) == IF path = CodePath THEN CodeVersions ELSE DocVersions

Max(S) == CHOOSE x \in S : \A y \in S : y <= x

RECURSIVE SumLen(_)
SumLen(seqs) ==
    IF seqs = <<>> THEN 0 ELSE Len(Head(seqs)) + SumLen(Tail(seqs))

\* Python slice s[lo:hi] (0-based, clipped to the list)
Slice(s, lo, hi) ==
    LET h == IF hi < Len(s) THEN hi ELSE Len(s)
    IN  IF lo >= h THEN <<>> ELSE [i \in 1 .. (h - lo) |-> s[lo + i]]

(***************************************************************************)
(* The files of the tree.  A source text is a sequence of lines; a line    *)
(* is a record [t, s]: t is what _extract_docstring_from_source looks at   *)
(* (def/class header, blank, comment, a one-line triple-quoted string of   *)
(* length n, other code), s is the text.                                   *)
(***************************************************************************)
Line(t, s, n) == [t |-> t, s |-> s, n |-> n]

TextF == << Line("def", "def f():", 0),
            Line("doc", "Return the answer to everything.", 32),
            Line("code", "return 42", 0) >>
TextM == << Line("def", "def m(self):", 0),
            Line("doc", "Measure the thing and report it.", 32),
            Line("code", "return self.x", 0) >>
TextC == << Line("class", "class C:", 0) >> \o TextM
TextG == << Line("def", "def g():", 0), Line("code", "return h()", 0) >>
TextH == << Line("def", "def h():", 0),
            Line("doc", "Short.", 6),
            Line("code", "return 1", 0) >>

\* a tree-sitter node that _NODE_KIND_MAP maps to a symbol
Node(type, name, ls, le, text, children) ==
    [type |-> type, name |-> name, line_start |-> ls, line_end |-> le,
     text |-> text, children |-> children]

\* tree.root_node of a.py, per version of its content
SyntaxTree(v) ==
    CASE v = 1 -> << Node("function_definition", "f", 1, 3, TextF, <<>>) >>
      [] v = 2 -> << Node("class_definition", "C", 1, 4, TextC,
                          << Node("function_definition", "m", 2, 4, TextM, <<>>) >>) >>
      [] OTHER -> << Node("function_definition", "g", 1, 2, TextG, <<>>),
                     Node("function_definition", "h", 3, 5, TextH, <<>>) >>

\* identifier leaves (name, line) of a.py in document order
Identifiers(v) ==
    CASE v = 1 -> << <<"f", 1>> >>
      [] v = 2 -> << <<"C", 1>>, <<"m", 2>>, <<"self", 2>>, <<"self", 4>> >>
      [] OTHER -> << <<"g", 1>>, <<"h", 2>>, <<"h", 3>> >>

\* README.md as text (the fallback symbol's source) and as sections
DocText(v) ==
    IF v = 1 THEN << Line("code", "# Install", 0), Line("code", "run the installer", 0) >>
    ELSE << Line("code", "# Usage", 0), Line("code", "long body", 0),
            Line("code", "# Tiny", 0) >>

Section(title, content, len, ls, le, subs) ==
    [section_title |-> title, content |-> content, len |-> len,
     line_start |-> ls, line_end |-> le, subs |-> subs]
Sub(content, len) == [content |-> content, len |-> len]

\* parse_markdown_sections(README.md); subs is what chunk_content returns
\* for the section's content
parse_markdown_sections(v) ==
    IF v = 1
    THEN << Section("Install", "Install run the installer", 60, 1, 2,
                    << Sub("Install run the installer", 60) >>) >>
    ELSE << Section("Usage", "Usage long body", 1600, 1, 2,
                    << Sub("Usage long", 1000), Sub("long body", 700) >>),
            Section("Tiny", "Tiny", 4, 3, 3, << Sub("Tiny", 4) >>) >>

chunk_content(section) == section.subs

DEFAULT_MIN_CHUNK_SIZE == 50

\* file_hash: xxh64 of the content, taken to be collision free
file_hash(path, v) == <<"xxh64", path, v>>

(***************************************************************************)
(* parser.py: symbol and reference extraction.                             *)
(***************************************************************************)
\* _NODE_KIND_MAP: node type -> (kind, is_container)
_NODE_KIND_MAP(type) ==
    IF type = "class_definition"
    THEN [kind |-> "class", is_container |-> TRUE]
    ELSE [kind |-> "function", is_container |-> FALSE]

Sym(name, kind, ls, le, text, children) ==
    [name |-> name, kind |-> kind, line_start |-> ls, line_end |-> le,
     source_text |-> text, children |-> children]

\* _extract_symbols._walk over a list of sibling nodes: the symbol is
\* appended, then the symbols of its children are appended to the same
\* list, and sym["children"] is the slice of the list they occupy
RECURSIVE _walk(_, _)
_walk(nodes, parent_kind) ==
    IF nodes = <<>> THEN <<>>
    ELSE LET node == Head(nodes)
             mapping == _NODE_KIND_MAP(node.type)
             kind == IF mapping.kind = "function" /\ parent_kind = "class"
                     THEN "method" ELSE mapping.kind
             sub == IF mapping.is_container
                    THEN _walk(node.children, kind) ELSE <<>>
         IN  << Sym(node.name, kind, node.line_start, node.line_end,
                    node.text, sub) >>
             \o sub \o _walk(Tail(nodes), parent_kind)

_extract_symbols(tree_root) == _walk(tree_root, "")

\* _parse_file_for_indexing._collect_symbols
RECURSIVE _collect_symbols(_)
_collect_symbols(sym_list) ==
    IF sym_list = <<>> THEN <<>>
    ELSE << Head(sym_list) >> \o _collect_symbols(Head(sym_list).children)
         \o _collect_symbols(Tail(sym_list))

\* the keys of a symbol dict that _store_parsed_file reads;
\* sym.get("parent_id") is None for every dict _extract_symbols builds
SymData(sym) ==
    [name |-> sym.name, kind |-> sym.kind, line_start |-> sym.line_start,
     line_end |-> sym.line_end, source_text |-> sym.source_text,
     parent_id |-> None]

\* _extract_references: identifier leaves, de-duplicated per (name, line)
RECURSIVE Dedup(_, _)
Dedup(s, seen) ==
    IF s = <<>> THEN <<>>
    ELSE IF Head(s) \in seen THEN Dedup(Tail(s), seen)
         ELSE << Head(s) >> \o Dedup(Tail(s), seen \cup {Head(s)})

_extract_references(v) ==
    LET ids == Dedup(Identifiers(v), {})
    IN  [i \in 1 .. Len(ids) |-> [name |-> ids[i][1], line |-> ids[i][2]]]

\* doc_parser._extract_docstring_from_source: skip up to the first def/class
\* line, skip blank and comment lines, and take the next line if it is a
\* triple-quoted string
NoDoc == [s |-> "", n |-> 0]

RECURSIVE FirstHeader(_, _)
FirstHeader(lines, i) ==
    IF i > Len(lines) THEN 0
    ELSE IF lines[i].t \in {"def", "class"} THEN i
         ELSE FirstHeader(lines, i + 1)

RECURSIVE FindDoc(_, _)
FindDoc(lines, i) ==
    IF i > Len(lines) THEN NoDoc
    ELSE IF lines[i].t \in {"blank", "comment"} THEN FindDoc(lines, i + 1)
         ELSE IF lines[i].t = "doc" THEN [s |-> lines[i].s, n |-> lines[i].n]
              ELSE NoDoc

_extract_docstring_from_source(source_text) ==
    FindDoc(source_text, FirstHeader(source_text, 1) + 1)

(***************************************************************************)
(* db.py: the store.  A store value is a record of tables; each table is   *)
(* a set of rows.  vec_dim is the declared dimension of the two vec0       *)
(* tables symbol_embeddings and doc_embeddings, 0 when they do not exist.  *)
(***************************************************************************)
EmptyDb ==
    [index_metadata |-> {}, vec_dim |-> 0, files |-> {}, symbols |-> {},
     symbol_embeddings |-> {}, references_ |-> {}, doc_files |-> {},
     doc_chunks |-> {}, doc_embeddings |-> {},
     symbols_fts |-> {}, doc_chunks_fts |-> {}]

\* the triggers symbols_ai, symbols_ad, symbols_au on symbols_fts: an INSERT
\* adds the entry of the row, the 'delete' command removes the entry with
\* the rowid and the values it is given
symbols_ai(fts, new) ==
    fts \cup {[rowid |-> new.id, name |-> new.name,
               source_text |-> new.source_text]}

symbols_ad_none(fts, old) == fts

symbols_ad(fts, old) ==
    fts \ {[rowid |-> old.id, name |-> old.name,
            source_text |-> old.source_text]}

symbols_au(fts, old, new) == symbols_ai(symbols_ad(fts, old), new)

\* the triggers doc_chunks_ai, doc_chunks_ad, doc_chunks_au on doc_chunks_fts
doc_chunks_ai(fts, new) ==
    fts \cup {[rowid |-> new.id, content |-> new.content,
               section_title |-> new.section_title]}

doc_chunks_ad(fts, old) ==
    fts \ {[rowid |-> old.id, content |-> old.content,
            section_title |-> old.section_title]}

doc_chunks_au(fts, old, new) == doc_chunks_ai(doc_chunks_ad(fts, old), new)

\* a trigger with one argument fired for each row of a set, in rowid order
RECURSIVE ForEachRow(_, _, _)
ForEachRow(trigger(_, _), fts, rows) ==
    IF rows = {} THEN fts
    ELSE LET r == CHOOSE x \in rows : \A y \in rows : x.id <= y.id
         IN  ForEachRow(trigger, trigger(fts, r), rows \ {r})

\* a result of a call that can raise: the store as the call leaves it
Ok(d) == [ok |-> TRUE, db |-> d]
Raise(d) == [ok |-> FALSE, db |-> d]

\* INTEGER PRIMARY KEY without AUTOINCREMENT: one more than the largest rowid
NextId(rows) == IF rows = {} THEN 1 ELSE Max({r.id : r \in rows}) + 1

\* str(embedding_dim) and int(stored_dim[0])
str(n) == IF n = 384 THEN "384" ELSE IF n = 768 THEN "768" ELSE "0"
int(t) == IF t = "384" THEN 384 ELSE IF t = "768" THEN 768 ELSE 0

\* SELECT value FROM index_metadata WHERE key = k   (fetchone; {} is None)
MetaRows(d, k) == {r \in d.index_metadata : r.key = k}
MetaValue(d, k) == (CHOOSE r \in MetaRows(d, k) : TRUE).value

\* INSERT OR REPLACE INTO index_metadata (key, value)
PutMeta(d, k, v) ==
    [d EXCEPT !.index_metadata =
        {r \in @ : r.key # k} \cup {[key |-> k, value |-> v]}]

_create_embedding_tables(d, embedding_dim) ==
    IF d.vec_dim = 0 THEN [d EXCEPT !.vec_dim = embedding_dim] ELSE d

\* _invalidate_index: both vec0 tables are dropped, then rows are deleted
\* from them; a DELETE on a table that does not exist raises
\* sqlite3.OperationalError, and the DROPs are already committed
_invalidate_index(d, embedding_dim) ==
    LET dropped == [d EXCEPT !.vec_dim = 0, !.symbol_embeddings = {},
                             !.doc_embeddings = {}]
    IN  IF dropped.vec_dim = 0
        THEN Raise(dropped)
        ELSE Ok(_create_embedding_tables(
                 [dropped EXCEPT !.symbol_embeddings = {}, !.doc_embeddings = {},
                                 !.symbols = {}, !.files = {}, !.references_ = {},
                                 !.doc_chunks = {}, !.doc_files = {},
                                 !.symbols_fts =
                                     ForEachRow(symbols_ad, @, dropped.symbols),
                                 !.doc_chunks_fts =
                                     ForEachRow(doc_chunks_ad, @, dropped.doc_chunks)],
                 embedding_dim))

\* the stored dimension compared as the string it is stored as
model_changed_str(d, model, embedding_dim) ==
    \/ MetaRows(d, "embedding_model") = {}
    \/ MetaValue(d, "embedding_model") # model
    \/ MetaRows(d, "embedding_dim") = {}
    \/ TRUE

\* get_db: model_changed
model_changed(d, model, embedding_dim) ==
    \/ MetaRows(d, "embedding_model") = {}
    \/ MetaValue(d, "embedding_model") # model
    \/ MetaRows(d, "embedding_dim") = {}
    \/ int(MetaValue(d, "embedding_dim")) # embedding_dim

\* get_db for a process whose EMBEDDING_MODEL_NAME is model
get_db(d, model) ==
    LET embedding_dim == get_embedding_dim(model)
        store_info(x) == PutMeta(PutMeta(x, "embedding_model", model),
                                 "embedding_dim", str(embedding_dim))
    IN  IF model_changed(d, model, embedding_dim)
        THEN IF MetaRows(d, "embedding_model") # {}
             THEN LET r == _invalidate_index(d, embedding_dim)
                  IN  IF r.ok THEN Ok(store_info(r.db)) ELSE r
             ELSE Ok(store_info(_create_embedding_tables(d, embedding_dim)))
        ELSE Ok(d)

\* SELECT id, ... FROM files WHERE path = ?
FileRows(d, path) == {r \in d.files : r.path = path}
FileRow(d, path) == CHOOSE r \in FileRows(d, path) : TRUE

upsert_file(d, path, last_modified, fhash) ==
    IF FileRows(d, path) # {}
    THEN [d EXCEPT !.files =
            {IF r.path = path
             THEN [r EXCEPT !.last_modified = last_modified, !.file_hash = fhash]
             ELSE r : r \in @}]
    ELSE [d EXCEPT !.files = @ \cup
            {[id |-> NextId(d.files), path |-> path,
              last_modified |-> last_modified, file_hash |-> fhash]}]

\* delete_file_data: the DELETE on symbol_embeddings is issued only when the
\* file has symbols, and raises when the table does not exist
\* a delete_file_data that leaves the embeddings of the deleted symbols
delete_file_data_keep_embeddings(d, file_id) ==
    Ok([d EXCEPT !.symbols = {r \in @ : r.file_id # file_id},
                 !.symbols_fts =
                     ForEachRow(symbols_ad, @,
                                {r \in d.symbols : r.file_id = file_id}),
                 !.references_ = {r \in @ : r.file_id # file_id}])

delete_file_data(d, file_id) ==
    LET sym_ids == {r.id : r \in {x \in d.symbols : x.file_id = file_id}}
    IN  IF sym_ids # {} /\ d.vec_dim = 0
        THEN Raise(d)
        ELSE Ok([d EXCEPT
                   !.symbol_embeddings = {e \in @ : e.symbol_id \notin sym_ids},
                   !.symbols = {r \in @ : r.file_id # file_id},
                   !.symbols_fts =
                       ForEachRow(symbols_ad, @,
                                  {r \in d.symbols : r.file_id = file_id}),
                   !.references_ = {r \in @ : r.file_id # file_id}])

SymbolRows(d, file_id, name, kind, line_start) ==
    {r \in d.symbols : /\ r.file_id = file_id /\ r.name = name
                       /\ r.kind = kind /\ r.line_start = line_start}

upsert_symbol(d, name, kind, file_id, line_start, line_end, parent_symbol_id, source_text) ==
    IF SymbolRows(d, file_id, name, kind, line_start) # {}
    THEN LET old == CHOOSE r \in SymbolRows(d, file_id, name, kind, line_start) : TRUE
             new == [old EXCEPT !.line_end = line_end,
                                !.parent_symbol_id = parent_symbol_id,
                                !.source_text = source_text]
         IN  [d EXCEPT !.symbols = (@ \ {old}) \cup {new},
                       !.symbols_fts = symbols_au(@, old, new)]
    ELSE LET new == [id |-> NextId(d.symbols), name |-> name, kind |-> kind,
                     file_id |-> file_id, line_start |-> line_start,
                     line_end |-> line_end,
                     parent_symbol_id |-> parent_symbol_id,
                     source_text |-> source_text]
         IN  [d EXCEPT !.symbols = @ \cup {new},
                       !.symbols_fts = symbols_ai(@, new)]

\* the id upsert_symbol returns
SymbolId(d, file_id, name, kind, line_start) ==
    (CHOOSE r \in SymbolRows(d, file_id, name, kind, line_start) : TRUE).id

\* an insert without the ON CONFLICT clause and without the UNIQUE index
upsert_reference_insert(d, symbol_name, file_id, line_number) ==
    [d EXCEPT !.references_ = @ \cup
        {[id |-> NextId(d.references_), symbol_name |-> symbol_name,
          file_id |-> file_id, line_number |-> line_number]}]

upsert_reference(d, symbol_name, file_id, line_number) ==
    IF \E r \in d.references_ : /\ r.symbol_name = symbol_name
                                /\ r.file_id = file_id
                                /\ r.line_number = line_number
    THEN d
    ELSE [d EXCEPT !.references_ = @ \cup
            {[id |-> NextId(d.references_), symbol_name |-> symbol_name,
              file_id |-> file_id, line_number |-> line_number]}]

\* a vec0 table rejects a vector whose length is not the declared dimension
VecAccepts(d, embedding) == d.vec_dim # 0 /\ embedding.dim = d.vec_dim

\* upsert_embedding: delete-then-insert
upsert_embedding(d, symbol_id, embedding) ==
    IF ~VecAccepts(d, embedding)
    THEN Raise(d)
    ELSE Ok([d EXCEPT !.symbol_embeddings =
                {e \in @ : e.symbol_id # symbol_id} \cup
                {[symbol_id |-> symbol_id, embedding |-> embedding]}])

DocFileRows(d, path) == {r \in d.doc_files : r.path = path}
DocFileRow(d, path) == CHOOSE r \in DocFileRows(d, path) : TRUE

upsert_doc_file(d, path, last_modified, fhash, doc_type) ==
    IF DocFileRows(d, path) # {}
    THEN [d EXCEPT !.doc_files =
            {IF r.path = path
             THEN [r EXCEPT !.last_modified = last_modified,
                            !.file_hash = fhash, !.doc_type = doc_type]
             ELSE r : r \in @}]
    ELSE [d EXCEPT !.doc_files = @ \cup
            {[id |-> NextId(d.doc_files), path |-> path,
              last_modified |-> last_modified, file_hash |-> fhash,
              doc_type |-> doc_type]}]

delete_doc_file_data(d, doc_file_id) ==
    LET chunk_ids == {r.id : r \in {x \in d.doc_chunks : x.doc_file_id = doc_file_id}}
    IN  IF chunk_ids # {} /\ d.vec_dim = 0
        THEN Raise(d)
        ELSE Ok([d EXCEPT
                   !.doc_embeddings = {e \in @ : e.chunk_id \notin chunk_ids},
                   !.doc_chunks = {r \in @ : r.doc_file_id # doc_file_id},
                   !.doc_chunks_fts =
                       ForEachRow(doc_chunks_ad, @,
                                  {r \in d.doc_chunks : r.doc_file_id = doc_file_id})])

ChunkRows(d, doc_file_id, chunk_index) ==
    {r \in d.doc_chunks : r.doc_file_id = doc_file_id /\ r.chunk_index = chunk_index}

upsert_doc_chunk(d, doc_file_id, chunk_index, section_title, content, line_start, line_end) ==
    IF ChunkRows(d, doc_file_id, chunk_index) # {}
    THEN LET old == CHOOSE r \in ChunkRows(d, doc_file_id, chunk_index) : TRUE
             new == [old EXCEPT !.section_title = section_title,
                                !.content = content, !.line_start = line_start,
                                !.line_end = line_end]
         IN  [d EXCEPT !.doc_chunks = (@ \ {old}) \cup {new},
                       !.doc_chunks_fts = doc_chunks_au(@, old, new)]
    ELSE LET new == [id |-> NextId(d.doc_chunks), doc_file_id |-> doc_file_id,
                     chunk_index |-> chunk_index,
                     section_title |-> section_title, content |-> content,
                     line_start |-> line_start, line_end |-> line_end]
         IN  [d EXCEPT !.doc_chunks = @ \cup {new},
                       !.doc_chunks_fts = doc_chunks_ai(@, new)]

ChunkId(d, doc_file_id, chunk_index) ==
    (CHOOSE r \in ChunkRows(d, doc_file_id, chunk_index) : TRUE).id

upsert_doc_embedding(d, chunk_id, embedding) ==
    IF ~VecAccepts(d, embedding)
    THEN Raise(d)
    ELSE Ok([d EXCEPT !.doc_embeddings =
                {e \in @ : e.chunk_id # chunk_id} \cup
                {[chunk_id |-> chunk_id, embedding |-> embedding]}])

\* embed_text / embed_texts_batch: one vector of the model's dimension per
\* text, a function of the text
embed_text(model, text) == [dim |-> get_embedding_dim(model), text |-> text]
embed_texts_batch(model, texts) ==
    [i \in 1 .. Len(texts) |-> embed_text(model, texts[i])]

\* a transaction whose except clause does not roll back
transaction_no_rollback(d, body) == body

\* transaction(db): BEGIN, the body, then commit; on an exception rollback
\* to the state at BEGIN and re-raise
transaction(d, body) == IF body.ok THEN Ok(body.db) ELSE Raise(d)

(***************************************************************************)
(* parser.py: index_directory and its helpers.                             *)
(***************************************************************************)
Parsed(skipped, file_id, mtime, fhash, symbols, references, fallback) ==
    [skipped |-> skipped, file_id |-> file_id, mtime |-> mtime,
     fhash |-> fhash, symbols |-> symbols, references |-> references,
     fallback |-> fallback]

MapSymData(syms) == [i \in 1 .. Len(syms) |-> SymData(syms[i])]

\* _parse_file_for_indexing past the freshness check: the file is read,
\* hashed and parsed (tree-sitter, or the whole file as one symbol)
ParseFile(path, st) ==
    IF _load_language(path)
    THEN Parsed(FALSE, None, st.mtime, file_hash(path, st.content),
                MapSymData(_collect_symbols(
                    _extract_symbols(SyntaxTree(st.content)))),
                _extract_references(st.content), FALSE)
    ELSE Parsed(FALSE, None, st.mtime, file_hash(path, st.content),
                << [name |-> path, kind |-> "file", line_start |-> 1,
                    line_end |-> Len(DocText(st.content)),
                    source_text |-> DocText(st.content),
                    parent_id |-> None] >>,
                <<>>, TRUE)

\* a freshness check that is never satisfied
_parse_file_for_indexing_always(d, path, st) == ParseFile(path, st)

\* _parse_file_for_indexing(filepath, db): st is the file on disk
_parse_file_for_indexing(d, path, st) ==
    IF FileRows(d, path) # {} /\ FileRow(d, path).last_modified >= st.mtime
    THEN Parsed(TRUE, FileRow(d, path).id, 0, <<>>, <<>>, <<>>, FALSE)
    ELSE ParseFile(path, st)

\* the embed input of a symbol: f"{kind} {name}: {source_text[:1000]}"
embed_input(sym) == <<sym.kind, sym.name, sym.source_text>>

Entry(fpath, parsed_data, error) ==
    [fpath |-> fpath, parsed_data |-> parsed_data, error |-> error]

\* index_directory phase 2: embedding_batches, in the order of parsed_files
RECURSIVE embedding_batches(_)
embedding_batches(parsed_files) ==
    IF parsed_files = <<>> THEN <<>>
    ELSE LET e == Head(parsed_files)
             embed_inputs == [i \in 1 .. Len(e.parsed_data.symbols) |->
                                 embed_input(e.parsed_data.symbols[i])]
         IN  (IF e.error \/ e.parsed_data.skipped \/ embed_inputs = <<>>
              THEN <<>>
              ELSE << [fpath |-> e.fpath, embed_inputs |-> embed_inputs] >>)
             \o embedding_batches(Tail(parsed_files))

RECURSIVE all_embed_texts(_)
all_embed_texts(batches) ==
    IF batches = <<>> THEN <<>>
    ELSE Head(batches).embed_inputs \o all_embed_texts(Tail(batches))

\* _store_parsed_file, "Find embeddings for this file": the slice taken from
\* all_embeddings starts at start_embed_idx + embed_offset; the result is
\* <<>> when no batch is the file's (file_embeddings = None)
RECURSIVE file_embeddings(_, _, _, _, _)
file_embeddings(batches, filepath, all_embeddings, start_embed_idx, embed_offset) ==
    IF batches = <<>> THEN <<>>
    ELSE IF Head(batches).fpath = filepath
         THEN Slice(all_embeddings, start_embed_idx + embed_offset,
                    start_embed_idx + embed_offset + Len(Head(batches).embed_inputs))
         ELSE file_embeddings(Tail(batches), filepath, all_embeddings,
                              start_embed_idx,
                              embed_offset + Len(Head(batches).embed_inputs))

\* _store_parsed_file, the body of the symbols transaction from symbol i on;
\* fault is the 1-based index of a statement the storage fails at (0: none)
RECURSIVE StoreSymbols(_, _, _, _, _, _)
StoreSymbols(d, file_id, symbols, embs, i, fault) ==
    IF i > Len(symbols) THEN Ok(d)
    ELSE IF i = fault THEN Raise(d)
    ELSE LET sym == symbols[i]
             d1 == upsert_symbol(d, sym.name, sym.kind, file_id, sym.line_start,
                                 sym.line_end, sym.parent_id, sym.source_text)
             sym_id == SymbolId(d1, file_id, sym.name, sym.kind, sym.line_start)
         IN  IF i <= Len(embs)
             THEN LET r == upsert_embedding(d1, sym_id, embs[i])
                  IN  IF r.ok
                      THEN StoreSymbols(r.db, file_id, symbols, embs, i + 1, fault)
                      ELSE r
             ELSE StoreSymbols(d1, file_id, symbols, embs, i + 1, fault)

\* _store_parsed_file, the body of the references transaction
RECURSIVE StoreReferences(_, _, _, _, _)
StoreReferences(d, file_id, refs, i, fault) ==
    IF i > Len(refs) THEN Ok(d)
    ELSE IF i = fault THEN Raise(d)
    ELSE StoreReferences(upsert_reference(d, refs[i].name, file_id, refs[i].line),
                         file_id, refs, i + 1, fault)

\* _store_parsed_file up to its commit points
StoreStep1(d, e) == upsert_file(d, e.fpath, e.parsed_data.mtime, e.parsed_data.fhash)

StoreStep2(d, e) == delete_file_data(d, FileRow(d, e.fpath).id)

StoreStep3(d, e, embs, fault) ==
    IF e.parsed_data.symbols # <<>> /\ embs # <<>>
    THEN transaction(d, StoreSymbols(d, FileRow(d, e.fpath).id,
                                     e.parsed_data.symbols, embs, 1, fault))
    ELSE Ok(d)

StoreStep4(d, e, fault) ==
    IF e.parsed_data.references # <<>>
    THEN transaction(d, StoreReferences(d, FileRow(d, e.fpath).id,
                                        e.parsed_data.references, 1, fault))
    ELSE Ok(d)

\* what _store_parsed_file returns as symbols_indexed
symbols_indexed(e, embs) ==
    IF e.parsed_data.symbols # <<>> /\ embs # <<>>
    THEN Len(e.parsed_data.symbols) ELSE 0

Result(file, nsym, nref, skipped, error) ==
    [file |-> file, symbols_indexed |-> nsym, references_indexed |-> nref,
     skipped |-> skipped, error |-> error]

(***************************************************************************)
(* doc_parser.py: index_doc_file, index_doc_directory and                  *)
(* extract_docstrings_from_code.  Every db_mod call commits, so a raise    *)
(* leaves the writes made before it.                                       *)
(***************************************************************************)
\* _get_doc_type: README_PATTERN matches the basename
_get_doc_type(path) == IF path = DocPath THEN "readme" ELSE "markdown"

\* the (section, sub-chunk) pairs index_doc_file stores, in order
RECURSIVE SubChunks(_, _)
SubChunks(section, subs) ==
    IF subs = <<>> THEN <<>>
    ELSE (IF Head(subs).len < DEFAULT_MIN_CHUNK_SIZE THEN <<>>
          ELSE << [section_title |-> section.section_title,
                   content |-> Head(subs).content,
                   line_start |-> section.line_start,
                   line_end |-> section.line_end] >>)
         \o SubChunks(section, Tail(subs))

RECURSIVE StoredChunks(_)
StoredChunks(sections) ==
    IF sections = <<>> THEN <<>>
    ELSE (IF Head(sections).len < DEFAULT_MIN_CHUNK_SIZE THEN <<>>
          ELSE SubChunks(Head(sections), chunk_content(Head(sections))))
         \o StoredChunks(Tail(sections))

\* index_doc_file's loop from chunk i on (chunk_index = i - 1)
RECURSIVE StoreChunks(_, _, _, _, _)
StoreChunks(d, model, doc_file_id, chunks, i) ==
    IF i > Len(chunks) THEN Ok(d)
    ELSE LET c == chunks[i]
             d1 == upsert_doc_chunk(d, doc_file_id, i - 1, c.section_title,
                                    c.content, c.line_start, c.line_end)
             r == upsert_doc_embedding(d1, ChunkId(d1, doc_file_id, i - 1),
                      embed_text(model, <<c.section_title, c.content>>))
         IN  IF r.ok THEN StoreChunks(r.db, model, doc_file_id, chunks, i + 1)
             ELSE r

DocResult(file, n, skipped) ==
    [file |-> file, chunks_indexed |-> n, skipped |-> skipped]

\* index_doc_file: [ok, db, result, wrote]
index_doc_file(d, model, path, st) ==
    LET fhash == file_hash(path, st.content)
        existing == DocFileRows(d, path)
        chunks == StoredChunks(parse_markdown_sections(st.content))
    IN  IF existing # {} /\ DocFileRow(d, path).file_hash = fhash
        THEN [ok |-> TRUE, db |-> d, result |-> DocResult(path, 0, TRUE),
              wrote |-> FALSE]
        ELSE LET r1 == IF existing # {}
                       THEN delete_doc_file_data(d, DocFileRow(d, path).id)
                       ELSE Ok(d)
                 d2 == upsert_doc_file(r1.db, path, st.mtime, fhash,
                                       _get_doc_type(path))
                 r3 == StoreChunks(d2, model, DocFileRow(d2, path).id, chunks, 1)
             IN  IF ~r1.ok
                 THEN [ok |-> FALSE, db |-> r1.db,
                       result |-> DocResult(path, 0, FALSE), wrote |-> FALSE]
                 ELSE [ok |-> r3.ok, db |-> r3.db,
                       result |-> DocResult(path, Len(chunks), FALSE),
                       wrote |-> TRUE]

\* index_doc_directory over the files from position i on
RECURSIVE index_doc_directory(_, _, _, _, _)
index_doc_directory(d, model, dsk, files, results) ==
    IF files = <<>>
    THEN [ok |-> TRUE, db |-> d, results |-> results, wrote |-> FALSE]
    ELSE LET r == index_doc_file(d, model, Head(files), dsk[Head(files)])
         IN  IF ~r.ok
             THEN [ok |-> FALSE, db |-> r.db, results |-> results,
                   wrote |-> r.wrote]
             ELSE LET rest == index_doc_directory(r.db, model, dsk, Tail(files),
                                                  Append(results, r.result))
                  IN  [rest EXCEPT !.wrote = @ \/ r.wrote]

\* the rows extract_docstrings_from_code iterates over, by symbol id
RECURSIVE ById(_)
ById(rows) ==
    IF rows = {} THEN <<>>
    ELSE LET r == CHOOSE x \in rows : \A y \in rows : x.id <= y.id
         IN  << r >> \o ById(rows \ {r})

FilePathOf(d, file_id) == (CHOOSE f \in d.files : f.id = file_id).path

DocstringRows(d) ==
    ById({r \in d.symbols : /\ r.kind \in {"function", "class", "method"}
                            /\ \E f \in d.files : f.id = r.file_id})

\* extract_docstrings_from_code's loop over rows: [ok, db, results, wrote]
RECURSIVE extract_docstrings(_, _, _, _, _, _)
extract_docstrings(d, model, dsk, rows, results, wrote) ==
    IF rows = <<>>
    THEN [ok |-> TRUE, db |-> d, results |-> results, wrote |-> wrote]
    ELSE LET row == Head(rows)
             file_path == FilePathOf(d, row.file_id)
             docstring == _extract_docstring_from_source(row.source_text)
             existing ==
                 \E dc \in d.doc_chunks : \E df \in d.doc_files :
                     /\ df.id = dc.doc_file_id /\ df.path = file_path
                     /\ dc.line_start = row.line_start
                     /\ dc.section_title = row.name
             d1 == IF DocFileRows(d, file_path) = {}
                   THEN upsert_doc_file(d, file_path, dsk[file_path].mtime,
                            file_hash(file_path, dsk[file_path].content),
                            "docstring")
                   ELSE d
             doc_file_id == DocFileRow(d1, file_path).id
             idxs == {c.chunk_index : c \in {x \in d1.doc_chunks :
                                               x.doc_file_id = doc_file_id}}
             max_idx == IF idxs = {} THEN -1 ELSE Max(idxs)
             d2 == upsert_doc_chunk(d1, doc_file_id, max_idx + 1, row.name,
                                    docstring.s, row.line_start, row.line_end)
             r == upsert_doc_embedding(d2, ChunkId(d2, doc_file_id, max_idx + 1),
                      embed_text(model, <<row.kind, row.name, docstring.s>>))
         IN  IF docstring.n < 20 \/ existing
             THEN extract_docstrings(d, model, dsk, Tail(rows), results, wrote)
             ELSE IF ~r.ok
                  THEN [ok |-> FALSE, db |-> r.db, results |-> results,
                        wrote |-> TRUE]
                  ELSE extract_docstrings(r.db, model, dsk, Tail(rows),
                           Append(results, [symbol |-> row.name, kind |-> row.kind,
                                            file |-> file_path]), TRUE)

extract_docstrings_from_code(d, model, dsk) ==
    extract_docstrings(d, model, dsk, DocstringRows(d), <<>>, FALSE)

(***************************************************************************)
(* The state machine.                                                      *)
(*   disk  path -> [mtime, content]: the project tree                      *)
(*   db    the committed content of code_memory.db                         *)
(*   conn  the connection of the process: whether the last get_db          *)
(*         returned one, and the process's EMBEDDING_MODEL_NAME            *)
(*   ix    the activation record of index_directory; in_call are the       *)
(*         files whose worker thread is inside db.execute on the shared    *)
(*         connection, fetched those whose worker has left it              *)
(*   ret   what the last completed call returned; for a tool of server.py  *)
(*         also its arguments (request), the record it returned            *)
(*         (response) and the calls it made (calls)                        *)
(*   hist  counters of the tree changes and storage failures so far, and   *)
(*         stage: how much of a full pass (index_directory,                *)
(*         index_doc_directory, extract_docstrings_from_code) has          *)
(*         completed without error since the tree or the store last        *)
(*         changed from outside; 3 is a complete pass, 4 to 6 count the    *)
(*         calls of the pass that follows it; fault_at is the statement    *)
(*         of a transaction body at which the storage last failed          *)
(***************************************************************************)
\* the directories a call can name: the project, a directory without
\* candidate files, a path that does not exist
ProjectDir == "."
PlainDir == "/tmp"
MissingDir == "/nonexistent/directory"

Paths == {CodePath, DocPath}

\* progress_callback(current, total, message): the message is its fixed
\* text and the path whose basename follows it ("" when none does)
Progress(current, total, text, fpath) ==
    [current |-> current, total |-> total,
     message |-> [text |-> text, basename_of |-> fpath]]

\* progress are the calls of progress_callback made so far
IdleIx ==
    [pc |-> "idle", pending |-> {}, parsed_files |-> <<>>,
     embedding_batches |-> <<>>, all_embeddings |-> <<>>, embed_idx |-> 0,
     k |-> 0, step |-> 0, embs |-> <<>>, results |-> <<>>, wrote |-> FALSE,
     clean |-> FALSE, db0 |-> EmptyDb, in_call |-> {}, fetched |-> {},
     progress |-> <<>>]

Ret(op, status, results, wrote, clean, changed) ==
    [op |-> op, status |-> status, results |-> results, wrote |-> wrote,
     clean |-> clean, changed |-> changed,
     request |-> <<>>, response |-> <<>>, calls |-> <<>>]

\* no call has returned since the tree last changed or a call began
NoRet == Ret("none", "ok", <<>>, FALSE, FALSE, FALSE)

Init ==
    /\ disk = [p \in Paths |-> [mtime |-> 1, content |-> 1]]
    /\ db = EmptyDb
    /\ conn = [open |-> FALSE, model |-> "M1"]
    /\ ix = IdleIx
    /\ ret = NoRet
    /\ hist = [edits |-> 0, faults |-> 0, stage |-> 0, fault_at |-> 0]

\* the recorded model or dimension exists and differs from the configured one
RecordedDiffers(d, m) ==
    /\ MetaRows(d, "embedding_model") # {}
    /\ \/ MetaValue(d, "embedding_model") # m
       \/ MetaRows(d, "embedding_dim") = {}
       \/ MetaValue(d, "embedding_dim") # str(get_embedding_dim(m))

\* a process configured with model m calls get_db
GetDb(m) ==
    /\ ix.pc = "idle"
    /\ LET r == get_db(db, m)
       IN  /\ db' = r.db
           /\ conn' = [open |-> r.ok, model |-> m]
           /\ ret' = Ret("get_db", IF r.ok THEN "ok" ELSE "raised", <<>>,
                         r.db # db, FALSE, RecordedDiffers(db, m))
           /\ hist' = [hist EXCEPT !.stage = IF r.ok /\ r.db = db THEN @ ELSE 0]
    /\ UNCHANGED <<disk, ix>>

\* the tree changes between two calls: a file's mtime changes, its content
\* does not
TouchFile(p, t) ==
    /\ ix.pc = "idle"
    /\ hist.edits < MaxEdits
    /\ t # disk[p].mtime
    /\ disk' = [disk EXCEPT ![p].mtime = t]
    /\ hist' = [hist EXCEPT !.edits = @ + 1, !.stage = 0]
    /\ ret' = NoRet
    /\ UNCHANGED <<db, conn, ix>>

\* a file's content changes; the mtime it is left with is any time (an
\* editor, a checkout, a restore that preserves times)
WriteFile(p, v, t) ==
    /\ ix.pc = "idle"
    /\ hist.edits < MaxEdits
    /\ v # disk[p].content
    /\ disk' = [disk EXCEPT ![p] = [mtime |-> t, content |-> v]]
    /\ hist' = [hist EXCEPT !.edits = @ + 1, !.stage = 0]
    /\ ret' = NoRet
    /\ UNCHANGED <<db, conn, ix>>

\* index_directory: the walk, then the parse tasks are submitted
IndexDirectoryStart ==
    /\ ix.pc = "idle"
    /\ conn.open
    /\ IF file_list = <<>>
       THEN /\ ret' = Ret("index_directory", "ok", <<>>, FALSE,
                          hist.stage >= 3, FALSE)
            /\ ix' = ix
       ELSE /\ ix' = [IdleIx EXCEPT !.pc = "parse",
                         !.pending = {file_list[i] : i \in 1 .. Len(file_list)},
                         !.clean = (hist.stage >= 3), !.db0 = db,
                         !.progress = << Progress(0, Len(file_list),
                                            "Scanning files for changes...", "") >>]
            /\ ret' = NoRet
    /\ UNCHANGED <<disk, db, conn, hist>>

\* a count of the tasks as_completed has not yielded yet
files_processed_pending(parsed_files) == Len(file_list) - Len(parsed_files)

\* files_processed: one per task as_completed has yielded
files_processed(parsed_files) == Len(parsed_files)

\* as_completed yields the task of file f, which returned its parsed data
ParseDone(f) ==
    /\ ix.pc = "parse"
    /\ f \in ix.pending
    /\ ix' = [ix EXCEPT !.pending = @ \ {f},
                 !.parsed_files = Append(@,
                     Entry(f, _parse_file_for_indexing(db, f, disk[f]), FALSE)),
                 !.progress = Append(@,
                     Progress(files_processed(ix.parsed_files) + 1,
                              Len(file_list), "Parsing: ", f))]
    /\ UNCHANGED <<disk, db, conn, ret, hist>>

\* as_completed yields the task of file f, in which reading the file raised
ParseRaise(f) ==
    /\ ix.pc = "parse"
    /\ f \in ix.pending
    /\ hist.faults < MaxFaults
    /\ ix' = [ix EXCEPT !.pending = @ \ {f},
                 !.parsed_files = Append(@,
                     Entry(f, Parsed(FALSE, None, 0, <<>>, <<>>, <<>>, FALSE), TRUE)),
                 !.progress = Append(@,
                     Progress(files_processed(ix.parsed_files) + 1,
                              Len(file_list), "Parsing: ", f))]
    /\ hist' = [hist EXCEPT !.faults = @ + 1]
    /\ UNCHANGED <<disk, db, conn, ret>>

\* phase 2: one batch of embeddings for all parsed symbols, between the
\* two progress calls of the phase boundaries
Embed ==
    /\ ix.pc = "parse"
    /\ ix.pending = {}
    /\ LET b == embedding_batches(ix.parsed_files)
       IN  ix' = [ix EXCEPT !.pc = "persist", !.k = 1, !.step = 1,
                            !.embedding_batches = b,
                            !.all_embeddings =
                                embed_texts_batch(conn.model, all_embed_texts(b)),
                            !.progress = @ \o
                                << Progress(Len(file_list), Len(file_list),
                                            "Generating embeddings...", ""),
                                   Progress(Len(file_list), Len(file_list),
                                            "Storing to database...", "") >>]
    /\ UNCHANGED <<disk, db, conn, ret, hist>>

CurEntry == ix.parsed_files[ix.k]

InPersist == ix.pc = "persist" /\ ix.k <= Len(ix.parsed_files)

\* an exception leaves index_directory
IndexDirectoryRaise ==
    /\ ix' = IdleIx
    /\ ret' = Ret("index_directory", "raised", <<>>, ix.wrote, ix.clean, FALSE)

\* phase 3, a file whose task raised or that was skipped
PersistSkipped ==
    /\ InPersist
    /\ CurEntry.error \/ CurEntry.parsed_data.skipped
    /\ ix' = [ix EXCEPT !.k = @ + 1,
                 !.results = Append(@, Result(CurEntry.fpath, 0, 0, TRUE,
                                              CurEntry.error))]
    /\ UNCHANGED <<disk, db, conn, ret, hist>>

Storing(step) ==
    /\ InPersist
    /\ ~CurEntry.error /\ ~CurEntry.parsed_data.skipped
    /\ ix.step = step

\* _store_parsed_file: upsert_file and its commit
PersistUpsertFile ==
    /\ Storing(1)
    /\ db' = StoreStep1(db, CurEntry)
    /\ ix' = [ix EXCEPT !.step = 2, !.wrote = TRUE]
    /\ UNCHANGED <<disk, conn, ret, hist>>

\* _store_parsed_file: delete_file_data and its commit, then the slice of
\* embeddings is taken
PersistDeleteFileData ==
    /\ Storing(2)
    /\ LET r == StoreStep2(db, CurEntry)
       IN  /\ db' = r.db
           /\ IF r.ok
              THEN /\ ix' = [ix EXCEPT !.step = 3,
                               !.embs = file_embeddings(ix.embedding_batches,
                                            CurEntry.fpath, ix.all_embeddings,
                                            ix.embed_idx, 0)]
                   /\ UNCHANGED <<ret, hist>>
              ELSE /\ IndexDirectoryRaise
                   /\ hist' = [hist EXCEPT !.stage = 0]
    /\ UNCHANGED <<disk, conn>>

\* _store_parsed_file: the symbols transaction; fault is the statement of
\* it at which the storage fails (0: none fails)
SymbolsTx(fault) ==
    /\ Storing(3)
    /\ LET r == StoreStep3(db, CurEntry, ix.embs, fault)
       IN  /\ db' = r.db
           /\ IF r.ok
              THEN /\ ix' = [ix EXCEPT !.step = 4]
                   /\ UNCHANGED <<ret, hist>>
              ELSE /\ IndexDirectoryRaise
                   /\ hist' = [hist EXCEPT !.stage = 0,
                                  !.faults = IF fault # 0 THEN @ + 1 ELSE @,
                                  !.fault_at = fault]
    /\ UNCHANGED <<disk, conn>>

PersistSymbols == SymbolsTx(0)

PersistSymbolsFault(fault) ==
    /\ hist.faults < MaxFaults
    /\ Storing(3)
    /\ ix.embs # <<>>
    /\ fault \in 1 .. Len(CurEntry.parsed_data.symbols)
    /\ SymbolsTx(fault)

\* _store_parsed_file: the references transaction and the return;
\* index_directory then advances embed_idx and appends the result
ReferencesTx(fault) ==
    /\ Storing(4)
    /\ LET r == StoreStep4(db, CurEntry, fault)
       IN  /\ db' = r.db
           /\ IF r.ok
              THEN /\ ix' = [ix EXCEPT !.k = @ + 1, !.step = 1, !.embs = <<>>,
                               !.embed_idx = @ + Len(CurEntry.parsed_data.symbols),
                               !.results = Append(@,
                                   Result(CurEntry.fpath,
                                          symbols_indexed(CurEntry, ix.embs),
                                          Len(CurEntry.parsed_data.references),
                                          FALSE, FALSE))]
                   /\ UNCHANGED <<ret, hist>>
              ELSE /\ IndexDirectoryRaise
                   /\ hist' = [hist EXCEPT !.stage = 0,
                                  !.faults = IF fault # 0 THEN @ + 1 ELSE @,
                                  !.fault_at = fault]
    /\ UNCHANGED <<disk, conn>>

PersistReferences == ReferencesTx(0)

PersistReferencesFault(fault) ==
    /\ hist.faults < MaxFaults
    /\ Storing(4)
    /\ fault \in 1 .. Len(CurEntry.parsed_data.references)
    /\ ReferencesTx(fault)

AnyError(results) == \E i \in 1 .. Len(results) : results[i].error

\* index_directory returns its results
IndexDirectoryReturn ==
    /\ ix.pc = "persist"
    /\ ix.k > Len(ix.parsed_files)
    /\ ret' = [Ret("index_directory", "ok", ix.results, ix.wrote, ix.clean,
                    FALSE)
                   EXCEPT !.request = ProjectDir, !.calls = ix.progress]
    /\ ix' = IdleIx
    /\ hist' = [hist EXCEPT !.stage = IF AnyError(ix.results) THEN 0
                                      ELSE IF @ >= 3 THEN 4 ELSE 1]
    /\ UNCHANGED <<disk, db, conn>>

\* index_doc_directory, a call
IndexDocDirectory ==
    /\ ix.pc = "idle"
    /\ conn.open
    /\ LET r == index_doc_directory(db, conn.model, disk, doc_file_list, <<>>)
       IN  /\ db' = r.db
           /\ ret' = Ret("index_doc_directory", IF r.ok THEN "ok" ELSE "raised",
                         r.results, r.wrote, hist.stage >= 3, FALSE)
           /\ hist' = [hist EXCEPT !.stage =
                          IF ~r.ok THEN 0
                          ELSE IF @ \in {1, 4} THEN @ + 1
                          ELSE IF @ >= 3 THEN @ ELSE 0]
    /\ UNCHANGED <<disk, conn, ix>>

\* extract_docstrings_from_code, a call
ExtractDocstrings ==
    /\ ix.pc = "idle"
    /\ conn.open
    /\ LET r == extract_docstrings_from_code(db, conn.model, disk)
       IN  /\ db' = r.db
           /\ ret' = Ret("extract_docstrings_from_code",
                         IF r.ok THEN "ok" ELSE "raised",
                         r.results, r.wrote, hist.stage >= 3, FALSE)
           /\ hist' = [hist EXCEPT !.stage =
                          IF ~r.ok THEN 0
                          ELSE IF @ \in {2, 5} THEN @ + 1
                          ELSE IF @ >= 3 THEN @ ELSE 0]
    /\ UNCHANGED <<disk, conn, ix>>

Next ==
    \/ \E m \in Models : GetDb(m)
    \/ \E p \in Paths : \E t \in 1 .. MaxTime : TouchFile(p, t)
    \/ \E p \in Paths : \E v \in Versions(p) : \E t \in 1 .. MaxTime :
           WriteFile(p, v, t)
    \/ IndexDirectoryStart
    \/ \E f \in Paths : ParseDone(f)
    \/ Embed
    \/ PersistSkipped
    \/ PersistUpsertFile
    \/ PersistDeleteFileData
    \/ PersistSymbols
    \/ PersistReferences
    \/ IndexDirectoryReturn
    \/ IndexDocDirectory
    \/ ExtractDocstrings

Spec == Init /\ [][Next]_vars

\* the same with failures of the storage and of file reads
MaxStatements == 3

NextFault ==
    \/ Next
    \/ \E f \in Paths : ParseRaise(f)
    \/ \E fault \in 1 .. MaxStatements : PersistSymbolsFault(fault)
    \/ \E fault \in 1 .. MaxStatements : PersistReferencesFault(fault)

SpecFault == Init /\ [][NextFault]_vars

(***************************************************************************)
(* The parse phase thread by thread: the ThreadPoolExecutor runs at most   *)
(* MAX_WORKERS tasks at a time, each task calls db.execute on the          *)
(* connection get_db opened with check_same_thread=False.                  *)
(***************************************************************************)
MAX_WORKERS == 4

\* the tasks a worker thread has taken and not finished
Running == (ix.in_call \cup ix.fetched) \cap ix.pending

\* a worker takes the task of file f and enters db.execute(SELECT id,
\* last_modified FROM files WHERE path = ?); nothing is acquired before it
WorkerExecute(f) ==
    /\ ix.pc = "parse"
    /\ f \in ix.pending \ (ix.in_call \cup ix.fetched)
    /\ Cardinality(Running) < MAX_WORKERS
    /\ ix' = [ix EXCEPT !.in_call = @ \cup {f}]
    /\ UNCHANGED <<disk, db, conn, ret, hist>>

\* the worker's call returns the row
WorkerFetched(f) ==
    /\ ix.pc = "parse"
    /\ f \in ix.in_call
    /\ ix' = [ix EXCEPT !.in_call = @ \ {f}, !.fetched = @ \cup {f}]
    /\ UNCHANGED <<disk, db, conn, ret, hist>>

\* the worker parses the file and its future completes
WorkerDone(f) ==
    /\ f \in ix.fetched
    /\ ParseDone(f)

NextThreads ==
    \/ \E m \in Models : GetDb(m)
    \/ \E p \in Paths : \E t \in 1 .. MaxTime : TouchFile(p, t)
    \/ \E p \in Paths : \E v \in Versions(p) : \E t \in 1 .. MaxTime :
           WriteFile(p, v, t)
    \/ IndexDirectoryStart
    \/ \E f \in Paths : WorkerExecute(f)
    \/ \E f \in Paths : WorkerFetched(f)
    \/ \E f \in Paths : WorkerDone(f)
    \/ Embed
    \/ PersistSkipped
    \/ PersistUpsertFile
    \/ PersistDeleteFileData
    \/ PersistSymbols
    \/ PersistReferences
    \/ IndexDirectoryReturn
    \/ IndexDocDirectory
    \/ ExtractDocstrings

SpecThreads == Init /\ [][NextThreads]_vars

\* C12: symbols_fts holds an entry for a row id exactly when that row is in
\* symbols, with the row's current name and source text, and doc_chunks_fts
\* likewise for doc_chunks
C12_FtsConsistent ==
    /\ db.symbols_fts =
           {[rowid |-> r.id, name |-> r.name, source_text |-> r.source_text] :
                r \in db.symbols}
    /\ db.doc_chunks_fts =
           {[rowid |-> r.id, content |-> r.content,
             section_title |-> r.section_title] : r \in db.doc_chunks}

\* in a pass over a populated store a symbol row of the store was deleted
\* or updated and new symbol rows were inserted, and doc chunks are indexed
C12_Witness ==
    /\ ix.pc = "persist"
    /\ \E r \in ix.db0.symbols : r \notin db.symbols
    /\ \E r \in db.symbols : r \notin ix.db0.symbols
    /\ db.symbols_fts # {} /\ db.doc_chunks_fts # {}

\* C13: no two rows of references_ share (symbol_name, file_id,
\* line_number), and upsert_reference of a triple that is present returns
\* the store unchanged
C13_ReferencesUnique ==
    /\ \A r1, r2 \in db.references_ :
          (/\ r1.symbol_name = r2.symbol_name /\ r1.file_id = r2.file_id
           /\ r1.line_number = r2.line_number) => r1 = r2
    /\ \A r \in db.references_ :
          upsert_reference(db, r.symbol_name, r.file_id, r.line_number) = db

\* references of one name on two lines of a file are stored
C13_Witness ==
    \E r1, r2 \in db.references_ :
        /\ r1.symbol_name = r2.symbol_name /\ r1.file_id = r2.file_id
        /\ r1.line_number # r2.line_number

\* C14: every stored symbol of kind "method" has a parent_symbol_id that is
\* not null and is the row id of a class symbol of the same file
C14_MethodHasParent ==
    \A r \in db.symbols :
        r.kind = "method" =>
            /\ r.parent_symbol_id # None
            /\ \E c \in db.symbols : /\ c.id = r.parent_symbol_id
                                      /\ c.kind = "class"
                                      /\ c.file_id = r.file_id

\* C15: when the storage fails at a statement inside a `with transaction(db)`
\* block, the store is left as it was at block entry and the exception
\* leaves the caller; when the block of a file completes, the rows of all
\* its statements are in the store together
C15_TransactionAllOrNothing ==
    [][/\ \A fault \in 1 .. MaxStatements :
             (PersistSymbolsFault(fault) \/ PersistReferencesFault(fault))
                 => /\ db' = db
                    /\ ret'.op = "index_directory" /\ ret'.status = "raised"
       /\ (PersistSymbols /\ ix'.step = 4 /\ ix.embs # <<>>)
             => \A i \in 1 .. Len(CurEntry.parsed_data.symbols) :
                    LET sym == CurEntry.parsed_data.symbols[i]
                    IN  SymbolRows(db', FileRow(db, CurEntry.fpath).id, sym.name,
                                   sym.kind, sym.line_start) # {}
       /\ (PersistReferences /\ ix'.k = ix.k + 1)
             => \A i \in 1 .. Len(CurEntry.parsed_data.references) :
                    \E r \in db'.references_ :
                        /\ r.symbol_name = CurEntry.parsed_data.references[i].name
                        /\ r.line_number = CurEntry.parsed_data.references[i].line
                        /\ r.file_id = FileRow(db, CurEntry.fpath).id]_vars

\* the storage failed at the second or a later statement of a transaction
\* body, after the statements before it had written rows, and
\* index_directory raised
C15_Witness ==
    /\ ret.op = "index_directory" /\ ret.status = "raised"
    /\ hist.fault_at >= 2
    /\ db.files # {}

\* C11: no two worker threads are inside a call on the shared connection
\* at the same time
C11_HandleAccessSerialized == Cardinality(ix.in_call) <= 1

(***************************************************************************)
(* Properties of get_db.                                                   *)
(***************************************************************************)
\* the recorded model and dimension both exist and equal the configured ones
RecordedEquals(d, m) ==
    /\ MetaRows(d, "embedding_model") # {}
    /\ MetaValue(d, "embedding_model") = m
    /\ MetaRows(d, "embedding_dim") # {}
    /\ MetaValue(d, "embedding_dim") = str(get_embedding_dim(m))

\* C1: after get_db has opened a store whose recorded model or dimension
\* differs from the configured one, and until the next call, the open has
\* succeeded, symbols, references, doc chunks and both embedding tables are
\* empty, the embedding tables have the new dimension and index_metadata
\* records the new model and dimension
C1_ModelChangeResets ==
    (ret.op = "get_db" /\ ret.changed) =>
        /\ ret.status = "ok"
        /\ db.symbols = {} /\ db.references_ = {} /\ db.doc_chunks = {}
        /\ db.symbol_embeddings = {} /\ db.doc_embeddings = {}
        /\ db.vec_dim = get_embedding_dim(conn.model)
        /\ RecordedEquals(db, conn.model)

\* C2: a get_db on a store whose recorded model and dimension equal the
\* configured ones leaves every table and both metadata keys as they were,
\* at every such open
C2_SameModelOpenWritesNothing ==
    [][\A m \in Models : (GetDb(m) /\ RecordedEquals(db, m)) => db' = db]_vars

\* a populated store has just been opened again with the model it records
C2_Witness ==
    /\ ret.op = "get_db" /\ ret.status = "ok" /\ ~ret.changed /\ ~ret.wrote
    /\ RecordedEquals(db, conn.model)
    /\ db.symbols # {} /\ db.symbol_embeddings # {} /\ db.doc_chunks # {}

(***************************************************************************)
(* Properties of the index pass.                                           *)
(***************************************************************************)
IndexOps == {"index_directory", "index_doc_directory",
             "extract_docstrings_from_code"}

AllSkipped(results) == \A i \in 1 .. Len(results) : results[i].skipped

\* C3: once a full pass (index_directory, index_doc_directory,
\* extract_docstrings_from_code) has completed, and as long as the tree and
\* the connection stay as they are, no step of a further pass changes any
\* table, index_directory and index_doc_directory report every file as
\* skipped and extract_docstrings_from_code reports nothing new
C3_SecondPassWritesNothing ==
    [][/\ (hist.stage >= 3 /\ disk' = disk /\ conn' = conn)
            => (db' = db /\ hist'.stage >= 3)
       /\ ix'.clean => ~ix'.wrote
       /\ (ret'.clean /\ ret'.op \in IndexOps)
            => /\ ret'.status = "ok" /\ ~ret'.wrote
               /\ IF ret'.op = "extract_docstrings_from_code"
                  THEN ret'.results = <<>>
                  ELSE ret'.results # <<>> /\ AllSkipped(ret'.results)]_vars

\* two full passes have completed over an unchanged tree, the store populated
C3_Witness ==
    /\ hist.stage = 6
    /\ ret.op = "extract_docstrings_from_code" /\ ret.clean
    /\ db.files # {} /\ db.symbols # {} /\ db.doc_chunks # {}

\* the rows derived from the file at path f
Derived(d, f) ==
    IF FileRows(d, f) = {} THEN <<{}, {}, {}>>
    ELSE LET fid == FileRow(d, f).id
             syms == {r \in d.symbols : r.file_id = fid}
         IN  << syms,
                {e \in d.symbol_embeddings : \E r \in syms : r.id = e.symbol_id},
                {r \in d.references_ : r.file_id = fid} >>

\* the file at f has the content the store d recorded and another mtime
Touched(d, f) ==
    /\ FileRows(d, f) # {}
    /\ FileRow(d, f).file_hash = file_hash(f, disk[f].content)
    /\ FileRow(d, f).last_modified # disk[f].mtime

\* C4: no step of an index_directory pass deletes, inserts or updates a
\* derived row (symbol, symbol embedding, reference) of a file whose mtime
\* changed while its fingerprint still equals the stored file_hash
C4_TouchedFileUntouched ==
    [][ix.pc # "idle" =>
          \A f \in Paths : Touched(ix.db0, f) => Derived(db', f) = Derived(db, f)]_vars

\* C5: in a store whose embedding tables exist, a file whose fingerprint
\* differs from the stored file_hash is not skipped by the pass, whatever
\* its mtime
C5_ChangedFileNotSkipped ==
    \A i \in 1 .. Len(ix.parsed_files) :
        LET e == ix.parsed_files[i]
        IN  (/\ ~e.error
             /\ ix.db0.vec_dim # 0
             /\ FileRows(ix.db0, e.fpath) # {}
             /\ FileRow(ix.db0, e.fpath).file_hash
                    # file_hash(e.fpath, disk[e.fpath].content))
            => ~e.parsed_data.skipped

\* what the store holds for the file at f, by natural key: its row, its
\* symbols each with the vectors stored for it, its references
FileState(d, f) ==
    IF FileRows(d, f) = {}
    THEN [last_modified |-> 0, file_hash |-> <<>>, symbols |-> {},
          references |-> {}]
    ELSE LET row == FileRow(d, f)
         IN  [last_modified |-> row.last_modified, file_hash |-> row.file_hash,
              symbols |->
                  {<<r.name, r.kind, r.line_start, r.line_end, r.source_text,
                     {e.embedding : e \in {x \in d.symbol_embeddings :
                                              x.symbol_id = r.id}}>> :
                       r \in {x \in d.symbols : x.file_id = row.id}},
              references |->
                  {<<r.symbol_name, r.line_number>> :
                       r \in {x \in d.references_ : x.file_id = row.id}}]

\* the complete state of the file at f as parsed from the tree
NewFileState(f, model) ==
    LET p == ParseFile(f, disk[f])
    IN  [last_modified |-> p.mtime, file_hash |-> p.fhash,
         symbols |->
             {<<p.symbols[i].name, p.symbols[i].kind, p.symbols[i].line_start,
                p.symbols[i].line_end, p.symbols[i].source_text,
                {embed_text(model, embed_input(p.symbols[i]))}>> :
                  i \in 1 .. Len(p.symbols)},
         references |->
             {<<p.references[i].name, p.references[i].line>> :
                  i \in 1 .. Len(p.references)}]

\* C6: at every commit point of the persist phase the store holds, for each
\* file, either the complete state it had when the pass began or the
\* complete state parsed from the tree
C6_PersistAtomic ==
    ix.pc = "persist" =>
        \A f \in Paths : \/ FileState(db, f) = FileState(ix.db0, f)
                         \/ FileState(db, f) = NewFileState(f, conn.model)

\* C7: index_directory does not raise: it returns a result list with one
\* entry per file, whatever fails while a file is persisted
C7_PersistErrorPerFile ==
    ret.op = "index_directory" =>
        ret.status = "ok" /\ Len(ret.results) = Len(file_list)

\* C8: when index_directory has returned, every file it reports as not
\* skipped has each of its parsed symbols as a row of symbols and each of
\* its parsed references as a row of references_
C8_ParsedRowsStored ==
    (ret.op = "index_directory" /\ ret.status = "ok") =>
        \A i \in 1 .. Len(ret.results) :
            LET r == ret.results[i]
                new == NewFileState(r.file, conn.model)
                got == FileState(db, r.file)
            IN  ~r.skipped =>
                  /\ {<<x[1], x[2], x[3]>> : x \in new.symbols}
                        \subseteq {<<x[1], x[2], x[3]>> : x \in got.symbols}
                  /\ new.references \subseteq got.references

\* C9: in a store whose embedding tables exist, in every state of the
\* persist phase and after an index call has returned, each symbol row has exactly one symbol_embeddings row, each doc
\* chunk row exactly one doc_embeddings row, and each vector has the
\* dimension index_metadata records
C9_OneEmbeddingEach ==
    (/\ db.vec_dim # 0
     /\ ix.pc = "persist" \/ (ret.op \in IndexOps /\ ret.status = "ok")) =>
        /\ \A r \in db.symbols :
              LET es == {e \in db.symbol_embeddings : e.symbol_id = r.id}
              IN  /\ Cardinality(es) = 1
                  /\ \A e \in es :
                        str(e.embedding.dim) = MetaValue(db, "embedding_dim")
        /\ \A c \in db.doc_chunks :
              LET es == {e \in db.doc_embeddings : e.chunk_id = c.id}
              IN  /\ Cardinality(es) = 1
                  /\ \A e \in es :
                        str(e.embedding.dim) = MetaValue(db, "embedding_dim")

\* index_directory phase 1 with the tasks completing in the order of files
ParseAll(d, files) ==
    [i \in 1 .. Len(files) |->
        Entry(files[i], _parse_file_for_indexing(d, files[i], disk[files[i]]),
              FALSE)]

\* index_directory phase 3 from entry k on
RECURSIVE PersistAll(_, _, _, _, _, _)
PersistAll(d, parsed_files, k, embed_idx, batches, all_embeddings) ==
    IF k > Len(parsed_files) THEN Ok(d)
    ELSE LET e == parsed_files[k]
             r2 == StoreStep2(StoreStep1(d, e), e)
             embs == file_embeddings(batches, e.fpath, all_embeddings,
                                     embed_idx, 0)
             r3 == StoreStep3(r2.db, e, embs, 0)
             r4 == StoreStep4(r3.db, e, 0)
         IN  IF e.parsed_data.skipped
             THEN PersistAll(d, parsed_files, k + 1, embed_idx, batches,
                             all_embeddings)
             ELSE IF ~r2.ok THEN r2
             ELSE IF ~r3.ok THEN r3
             ELSE IF ~r4.ok THEN r4
             ELSE PersistAll(r4.db, parsed_files, k + 1,
                             embed_idx + Len(e.parsed_data.symbols), batches,
                             all_embeddings)

\* index_directory as one function of the store, with the parse tasks
\* completing in the order of files
index_directory(d, model, files) ==
    LET parsed_files == ParseAll(d, files)
        batches == embedding_batches(parsed_files)
    IN  PersistAll(d, parsed_files, 1, 0, batches,
                   embed_texts_batch(model, all_embed_texts(batches)))

\* the store by natural key
NatKey(d) == [f \in Paths |-> FileState(d, f)]

\* C10: the store index_directory ends with is, by natural key, the one it
\* ends with when the parse tasks complete in the order they were submitted
C10_CompletionOrderIrrelevant ==
    (ix.pc = "persist" /\ ix.k > Len(ix.parsed_files)) =>
        NatKey(db) = NatKey(index_directory(ix.db0, conn.model, file_list).db)

(***************************************************************************)
(* The tool layer (server.py).  A str argument is the sequence of its      *)
(* characters; an optional int is the set of its values, {} for None; an   *)
(* optional path is a string, "" for None and for the empty string, which  *)
(* the code never tells apart (`if not target_file`).  A call that raises  *)
(* is [ok |-> FALSE, exc |-> the exception], one that returns is           *)
(* [ok |-> TRUE, value |-> what it returned].                              *)
(***************************************************************************)
Whitespace == {" ", "\n"}

RECURSIVE lstrip(_)
lstrip(s) == IF s # <<>> /\ Head(s) \in Whitespace THEN lstrip(Tail(s)) ELSE s

RECURSIVE rstrip(_)
rstrip(s) == IF s # <<>> /\ s[Len(s)] \in Whitespace THEN rstrip(SubSeq(s, 1, Len(s) - 1)) ELSE s

\* str.strip()
strip(s) == rstrip(lstrip(s))

\* str.lower() on the characters that occur
lower_char(c) ==
    CASE c = "A" -> "a" [] c = "B" -> "b" [] c = "C" -> "c" [] c = "D" -> "d"
      [] c = "E" -> "e" [] c = "F" -> "f" [] c = "H" -> "h" [] OTHER -> c

lower(s) == [i \in 1 .. Len(s) |-> lower_char(s[i])]

\* the character class [0-9a-f]
HexDigits == {"0", "1", "2", "3", "4", "5", "6", "7", "8", "9",
              "a", "b", "c", "d", "e", "f"}

\* errors.py: an exception is its class, its message and its details
Exc(type, message, details) == [type |-> type, message |-> message, details |-> details]

\* CodeMemoryError.__init__: self.details = details or {}
ValidationError(message, details) == Exc("ValidationError", message, details)
GitError(message) == Exc("GitError", message, None)

\* the subclasses of CodeMemoryError
CodeMemoryErrors == {"CodeMemoryError", "DatabaseError", "IndexingError",
                     "GitError", "ValidationError", "EmbeddingError"}

Returned(v) == [ok |-> TRUE, value |-> v]
Raised(e) == [ok |-> FALSE, exc |-> e]

\* CodeMemoryError.to_dict
to_dict(e) ==
    [error |-> TRUE, error_type |-> e.type, message |-> e.message,
     details |-> e.details]

\* errors.format_error
format_error(e) ==
    [error |-> TRUE, error_type |-> e.type, message |-> e.message,
     details |-> None]

\* the two except clauses that end every tool but check_index_status
except_clauses(e) ==
    IF e.type \in CodeMemoryErrors THEN to_dict(e) ELSE format_error(e)

\* validate_query measuring the query as given, without strip()
validate_query_unstripped(query, min_length, max_length) ==
    IF Len(query) < min_length
    THEN Raised(ValidationError("Query too short",
             [length |-> Len(query), minimum |-> min_length]))
    ELSE IF Len(query) > max_length
    THEN Raised(ValidationError("Query too long",
             [length |-> Len(query), maximum |-> max_length]))
    ELSE Returned(query)

\* validation.validate_query
validate_query(query, min_length, max_length) ==
    LET sanitized == strip(query)
    IN  IF Len(sanitized) < min_length
        THEN Raised(ValidationError("Query too short",
                 [length |-> Len(sanitized), minimum |-> min_length]))
        ELSE IF Len(sanitized) > max_length
        THEN Raised(ValidationError("Query too long",
                 [length |-> Len(sanitized), maximum |-> max_length]))
        ELSE Returned(sanitized)

InList(x, list) == \E i \in 1 .. Len(list) : list[i] = x

\* validation.validate_search_type
validate_search_type(search_type, allowed) ==
    IF search_type = ""
    THEN Raised(ValidationError("Search type is required",
             [allowed_values |-> allowed]))
    ELSE IF ~InList(search_type, allowed)
    THEN Raised(ValidationError("Invalid search type",
             [allowed_values |-> allowed, provided |-> search_type]))
    ELSE Returned(search_type)

\* validate_line_number without the comparison with min_val
validate_line_number_any(value, name, min_val) == Returned(value)

\* validation.validate_line_number
validate_line_number(value, name, min_val) ==
    IF value = {} THEN Returned(value)
    ELSE IF \E v \in value : v < min_val
    THEN Raised(ValidationError(name,
             [provided |-> value, minimum |-> min_val]))
    ELSE Returned(value)

\* validation.validate_line_range
validate_line_range(line_start, line_end) ==
    LET start == validate_line_number(line_start, "line_start must be >= 1", 1)
        end == validate_line_number(line_end, "line_end must be >= 1", 1)
    IN  IF ~start.ok THEN start
        ELSE IF ~end.ok THEN end
        ELSE IF \E s \in start.value : \E e \in end.value : s > e
        THEN Raised(ValidationError("line_start cannot be greater than line_end",
                 [line_start |-> start.value, line_end |-> end.value]))
        ELSE Returned(<<start.value, end.value>>)

\* validation.validate_top_k; None and 0 are both the model's None
validate_top_k(value, min_val, max_val, default) ==
    IF value = None THEN Returned(default)
    ELSE IF value < min_val
    THEN Raised(ValidationError("top_k must be >= min_val",
             [provided |-> value, minimum |-> min_val]))
    ELSE IF value > max_val
    THEN Raised(ValidationError("top_k must be <= max_val",
             [provided |-> value, maximum |-> max_val]))
    ELSE Returned(value)

\* validation.validate_commit_hash
validate_commit_hash(hash_str) ==
    LET sanitized == lower(strip(hash_str))
    IN  IF hash_str = <<>>
        THEN Raised(ValidationError("Commit hash cannot be empty", None))
        ELSE IF ~(/\ Len(sanitized) >= 7
                  /\ Len(sanitized) <= 40
                  /\ \A i \in 1 .. Len(sanitized) : sanitized[i] \in HexDigits)
        THEN Raised(ValidationError("Invalid commit hash format",
                 [expected |-> "7-40 hexadecimal characters"]))
        ELSE Returned(sanitized)

(***************************************************************************)
(* git_search.py.  The project directory is the work tree of a repository  *)
(* with two commits; PlainDir is a directory outside any repository,       *)
(* MissingDir a path that does not exist.                                  *)
(***************************************************************************)
Hexsha(c) == [i \in 1 .. 40 |-> c]

CommitA == [hexsha |-> Hexsha("a"), message |-> <<"a", "d", "d">>, files |-> {CodePath, DocPath}]
CommitB == [hexsha |-> Hexsha("b"), message |-> <<"F", "i", "x">>, files |-> {CodePath}]

\* repo.iter_commits(): most recent first
Repo == << CommitB, CommitA >>

\* the files of HEAD's tree
Tracked == {CodePath, DocPath}

\* repo.blame("HEAD", file_path): (commit, lines) in file order
BlameData(file_path) ==
    IF file_path = CodePath
    THEN << <<CommitA, <<"l1">> >>, <<CommitA, <<"l2">> >>,
            <<CommitB, <<"l3">> >>, <<CommitA, <<"l4">> >> >>
    ELSE << <<CommitA, <<"d1", "d2">> >> >>

IsPrefix(p, s) == Len(p) <= Len(s) /\ SubSeq(s, 1, Len(p)) = p

\* commit_hash names a commit of the repository: HEAD, a full hash, or an
\* abbreviation of seven characters or more
Resolves(commit_hash, commit) ==
    \/ commit_hash = <<"H", "E", "A", "D">> /\ commit = Repo[1]
    \/ Len(commit_hash) >= 7 /\ IsPrefix(commit_hash, commit.hexsha)

\* git_search.get_repo
get_repo(path) ==
    IF path = ProjectDir THEN Returned(Repo)
    ELSE IF path = PlainDir
    THEN Raised(Exc("InvalidGitRepositoryError", path, None))
    ELSE Raised(Exc("NoSuchPathError", path, None))

\* git_search._commit_to_dict
_commit_to_dict(commit) ==
    [hash |-> SubSeq(commit.hexsha, 1, 7), full_hash |-> commit.hexsha,
     message |-> strip(commit.message)]

IsSubstring(q, m) ==
    \E i \in 0 .. Len(m) : i + Len(q) <= Len(m) /\ SubSeq(m, i + 1, i + Len(q)) = q

Take(list, n) == SubSeq(list, 1, IF Len(list) < n THEN Len(list) ELSE n)

\* git_search.search_commits
search_commits(repo, query, target_file, max_results) ==
    LET query_lower == lower(query)
        commits == Take(SelectSeq(repo, LAMBDA c :
                            target_file = "" \/ target_file \in c.files),
                        max_results * 5)
        hits == SelectSeq(commits, LAMBDA c :
                    IsSubstring(query_lower, lower(c.message)))
    IN  [i \in 1 .. Len(Take(hits, max_results)) |-> _commit_to_dict(hits[i])]

\* git_search.get_file_history
get_file_history(repo, file_path, max_results) ==
    LET commits == Take(SelectSeq(repo, LAMBDA c : file_path \in c.files),
                        max_results)
    IN  [i \in 1 .. Len(commits) |-> _commit_to_dict(commits[i])]

\* get_blame: the per-line entries of blame_data from line current_line on
RECURSIVE Flatten(_, _)
Flatten(blame_data, current_line) ==
    IF blame_data = <<>> THEN <<>>
    ELSE LET commit == Head(blame_data)[1]
             lines == Head(blame_data)[2]
         IN  [i \in 1 .. Len(lines) |->
                 [line_number |-> current_line + i - 1,
                  commit_hash |-> SubSeq(commit.hexsha, 1, 7),
                  line_content |-> << lines[i] >>]]
             \o Flatten(Tail(blame_data), current_line + Len(lines))

\* a grouping loop that never extends the last group
Group_per_line(flat, grouped) ==
    grouped \o [i \in 1 .. Len(flat) |->
                   [line_start |-> flat[i].line_number,
                    line_end |-> flat[i].line_number,
                    commit_hash |-> flat[i].commit_hash,
                    line_content |-> flat[i].line_content]]

\* get_blame: the grouping loop over flat, from the groups built so far
RECURSIVE Group(_, _)
Group(flat, grouped) ==
    IF flat = <<>> THEN grouped
    ELSE LET entry == Head(flat)
             n == Len(grouped)
         IN  IF /\ n > 0
                /\ grouped[n].commit_hash = entry.commit_hash
                /\ grouped[n].line_end = entry.line_number - 1
             THEN Group(Tail(flat),
                      [grouped EXCEPT ![n].line_end = entry.line_number,
                                      ![n].line_content = @ \o entry.line_content])
             ELSE Group(Tail(flat),
                      Append(grouped,
                          [line_start |-> entry.line_number,
                           line_end |-> entry.line_number,
                           commit_hash |-> entry.commit_hash,
                           line_content |-> entry.line_content]))

\* get_blame after repo.blame returned blame_data: flatten, filter to the
\* requested range, then group
blame_entries(blame_data, line_start, line_end) ==
    LET flat == Flatten(blame_data, 1)
        from == SelectSeq(flat, LAMBDA e :
                    \A s \in line_start : e.line_number >= s)
        upto == SelectSeq(from, LAMBDA e :
                    \A s \in line_end : e.line_number <= s)
    IN  Group(upto, <<>>)

\* git_search.get_blame: a failure of repo.blame is returned, not raised
get_blame(repo, file_path, line_start, line_end) ==
    IF file_path \notin Tracked
    THEN << [error |-> "Blame failed"] >>
    ELSE blame_entries(BlameData(file_path), line_start, line_end)

\* git_search.get_commit_detail: a failure of repo.commit is returned, not
\* raised
get_commit_detail(repo, commit_hash, target_file) ==
    IF \A i \in 1 .. Len(repo) : ~Resolves(commit_hash, repo[i])
    THEN [error |-> "Could not resolve commit"]
    ELSE LET commit == repo[CHOOSE i \in 1 .. Len(repo) :
                                Resolves(commit_hash, repo[i])]
         IN  [hash |-> SubSeq(commit.hexsha, 1, 7),
              full_hash |-> commit.hexsha,
              message |-> strip(commit.message),
              files_changed |-> commit.files,
              diff |-> IF target_file \in commit.files THEN target_file ELSE ""]

(***************************************************************************)
(* queries.py, as the rows each query finds; a store of the model holds    *)
(* fewer rows than any top_k, so no cut applies.                           *)
(***************************************************************************)
\* a name or path of the store as the sequence of its characters
chars(name) ==
    CASE name = "self" -> <<"s", "e", "l", "f">>
      [] name = CodePath -> <<"a", ".", "p", "y">>
      [] OTHER -> << name >>

OperationalError(message) == Exc("OperationalError", message, None)

\* queries._bm25_search: symbols_fts MATCH ?, joined with symbols and files
_bm25_search(query, d) ==
    {r \in d.symbols :
        /\ \E e \in d.symbols_fts : e.rowid = r.id /\ chars(e.name) = query
        /\ \E f \in d.files : f.id = r.file_id}

\* queries._vector_search: the nearest rows of symbol_embeddings
_vector_search(query, d) ==
    IF d.vec_dim = 0
    THEN Raised(OperationalError("no such table: symbol_embeddings"))
    ELSE Returned({r \in d.symbols :
                      /\ \E e \in d.symbol_embeddings : e.symbol_id = r.id
                      /\ \E f \in d.files : f.id = r.file_id})

\* queries.hybrid_search
hybrid_search(query, d) ==
    LET bm25_results == _bm25_search(query, d)
        vec_results == _vector_search(query, d)
    IN  IF ~vec_results.ok THEN vec_results
        ELSE Returned(bm25_results \cup vec_results.value)

SymbolResult(d, r) == [name |-> r.name, kind |-> r.kind, file_path |-> FilePathOf(d, r.file_id), line_start |-> r.line_start]

\* queries.find_definition
find_definition(symbol_name, d) ==
    LET results == hybrid_search(symbol_name, d)
        exact == {r \in results.value : chars(r.name) = symbol_name}
        matched == IF exact # {} THEN exact ELSE results.value
    IN  IF ~results.ok THEN results
        ELSE Returned({SymbolResult(d, r) : r \in matched})

\* queries.discover_topic
discover_topic(topic_query, d) ==
    LET code_results == hybrid_search(topic_query, d)
    IN  IF ~code_results.ok THEN code_results
        ELSE Returned({[file_path |-> fp,
                        matched_symbols |-> {r.name : r \in {x \in code_results.value : FilePathOf(d, x.file_id) = fp}}] :
                       fp \in {FilePathOf(d, r.file_id) : r \in code_results.value}})

\* queries.find_references
find_references(symbol_name, d) ==
    Returned({[symbol_name |-> r.symbol_name, file_path |-> FilePathOf(d, r.file_id), line_number |-> r.line_number] :
              r \in {x \in d.references_ : /\ chars(x.symbol_name) = symbol_name
                                           /\ \E f \in d.files : f.id = x.file_id}})

\* queries.get_file_structure
get_file_structure(file_path, d) ==
    Returned({[name |-> r.name, kind |-> r.kind, line_start |-> r.line_start, line_end |-> r.line_end] :
              r \in {x \in d.symbols : \E f \in d.files : f.id = x.file_id /\ chars(f.path) = file_path}})

\* queries.search_documentation
search_documentation(query, d, top_k) ==
    LET bm25_results == {c \in d.doc_chunks :
                            /\ \E e \in d.doc_chunks_fts : e.rowid = c.id /\ chars(e.section_title) = query
                            /\ \E f \in d.doc_files : f.id = c.doc_file_id}
        vec_results == {c \in d.doc_chunks :
                            /\ \E e \in d.doc_embeddings : e.chunk_id = c.id
                            /\ \E f \in d.doc_files : f.id = c.doc_file_id}
    IN  IF d.vec_dim = 0
        THEN Raised(OperationalError("no such table: doc_embeddings"))
        ELSE Returned({[section_title |-> c.section_title, line_start |-> c.line_start, line_end |-> c.line_end] :
                       c \in bm25_results \cup vec_results})

(***************************************************************************)
(* server.py: the tools.  Each is [response, calls, db]: the record it     *)
(* returns, the calls it made outside server.py and validation.py in the   *)
(* order it made them, and the store it leaves.                            *)
(***************************************************************************)
Tool(response, calls, d) == [response |-> response, calls |-> calls, db |-> d]

\* db_mod.get_db(directory): sqlite3.connect on directory/code_memory.db,
\* then get_db on the store of the project
connect(directory, d, model) ==
    IF directory = MissingDir
    THEN [ok |-> FALSE, db |-> d, exc |-> OperationalError("unable to open database file")]
    ELSE LET r == get_db(d, model)
         IN  [ok |-> r.ok, db |-> r.db, exc |-> OperationalError("no such table: symbol_embeddings")]

\* response["hint"] = ... when nothing was found and nothing is indexed
WithHint(response, empty) ==
    IF empty
    THEN [x \in DOMAIN response \cup {"hint"} |-> IF x = "hint" THEN "Call index_codebase(directory) first." ELSE response[x]]
    ELSE response

\* the error record check_index_status builds itself
StatusError(e) == [error |-> TRUE, error_type |-> "Exception", message |-> e.message, details |-> None]

\* server.check_index_status
check_index_status(directory, d, model) ==
    LET database == connect(directory, d, model)
        indexed == database.db.symbols # {} \/ database.db.doc_chunks # {}
    IN  IF ~database.ok
        THEN Tool(StatusError(database.exc), <<"get_db">>, database.db)
        ELSE Tool([indexed |-> indexed,
                   symbols_indexed |-> Cardinality(database.db.symbols),
                   doc_chunks_indexed |-> Cardinality(database.db.doc_chunks),
                   code_files_indexed |-> Cardinality(database.db.files),
                   doc_files_indexed |-> Cardinality(database.db.doc_files),
                   suggestion |-> IF indexed THEN "ready to search" ELSE "CALL index_codebase FIRST"],
                  <<"get_db">>, database.db)

\* server.get_index_stats; db_mod.get_index_stats counts the rows of
\* symbol_embeddings and doc_embeddings too
get_index_stats(directory, d, model) ==
    LET database == connect(directory, d, model)
    IN  IF ~database.ok
        THEN Tool(format_error(database.exc), <<"get_db">>, database.db)
        ELSE IF database.db.vec_dim = 0
        THEN Tool(format_error(OperationalError("no such table: symbol_embeddings")),
                  <<"get_db", "get_index_stats">>, database.db)
        ELSE Tool([status |-> "ok",
                   indexed |-> database.db.symbols # {} \/ database.db.doc_chunks # {},
                   counts |-> [symbols |-> Cardinality(database.db.symbols),
                               files |-> Cardinality(database.db.files),
                               doc_chunks |-> Cardinality(database.db.doc_chunks),
                               symbol_embeddings |-> Cardinality(database.db.symbol_embeddings)]],
                  <<"get_db", "get_index_stats">>, database.db)

SearchCodeTypes == <<"topic_discovery", "definition", "references", "file_structure">>

\* server.search_code
search_code(query, search_type, directory, d, model) ==
    LET q == validate_query(query, 1, 1000)
        validated_search_type == validate_search_type(search_type, SearchCodeTypes)
        database == connect(directory, d, model)
        results ==
            CASE validated_search_type.value = "topic_discovery" -> discover_topic(q.value, database.db)
              [] validated_search_type.value = "definition" -> find_definition(q.value, database.db)
              [] validated_search_type.value = "references" -> find_references(q.value, database.db)
              [] validated_search_type.value = "file_structure" -> get_file_structure(q.value, database.db)
    IN  IF ~q.ok THEN Tool(except_clauses(q.exc), <<>>, d)
        ELSE IF ~validated_search_type.ok
        THEN Tool(except_clauses(validated_search_type.exc), <<>>, d)
        ELSE IF ~database.ok
        THEN Tool(except_clauses(database.exc), <<"get_db">>, database.db)
        ELSE IF ~results.ok
        THEN Tool(except_clauses(results.exc), <<"get_db", "queries">>, database.db)
        ELSE Tool(WithHint([status |-> "ok", search_type |-> validated_search_type.value,
                            query |-> q.value, results |-> results.value],
                           results.value = {} /\ database.db.symbols = {}),
                  <<"get_db", "queries">>, database.db)

\* server.search_docs
search_docs(query, directory, top_k, d, model) ==
    LET q == validate_query(query, 1, 1000)
        k == validate_top_k(top_k, 1, 100, 10)
        database == connect(directory, d, model)
        results == search_documentation(q.value, database.db, k.value)
    IN  IF ~q.ok THEN Tool(except_clauses(q.exc), <<>>, d)
        ELSE IF ~k.ok THEN Tool(except_clauses(k.exc), <<>>, d)
        ELSE IF ~database.ok
        THEN Tool(except_clauses(database.exc), <<"get_db">>, database.db)
        ELSE IF ~results.ok
        THEN Tool(except_clauses(results.exc), <<"get_db", "queries">>, database.db)
        ELSE Tool(WithHint([status |-> "ok", query |-> q.value, results |-> results.value,
                            count |-> Cardinality(results.value)],
                           results.value = {} /\ database.db.doc_chunks = {}),
                  <<"get_db", "queries">>, database.db)

SearchHistoryTypes == <<"commits", "file_history", "blame", "commit_detail">>

\* server.search_history
search_history(query, directory, search_type, target_file, line_start, line_end, d) ==
    LET validated_search_type == validate_search_type(search_type, SearchHistoryTypes)
        range == validate_line_range(line_start, line_end)
        repo == get_repo(directory)
        q == validate_query(query, 1, 1000)
    IN  IF ~validated_search_type.ok
        THEN Tool(except_clauses(validated_search_type.exc), <<>>, d)
        ELSE IF ~range.ok THEN Tool(except_clauses(range.exc), <<>>, d)
        ELSE IF ~repo.ok
        THEN Tool(except_clauses(GitError("Git repository not found")), <<"get_repo">>, d)
        ELSE IF validated_search_type.value = "commits"
        THEN IF ~q.ok THEN Tool(except_clauses(q.exc), <<"get_repo">>, d)
             ELSE Tool([status |-> "ok", search_type |-> "commits", query |-> q.value,
                        results |-> search_commits(repo.value, q.value, target_file, 20)],
                       <<"get_repo", "repo.iter_commits">>, d)
        ELSE IF validated_search_type.value = "file_history"
        THEN IF target_file = ""
             THEN Tool(except_clauses(ValidationError("target_file is required for file_history search", None)),
                       <<"get_repo">>, d)
             ELSE Tool([status |-> "ok", search_type |-> "file_history", target_file |-> target_file,
                        results |-> get_file_history(repo.value, target_file, 20)],
                       <<"get_repo", "repo.iter_commits">>, d)
        ELSE IF validated_search_type.value = "blame"
        THEN IF target_file = ""
             THEN Tool(except_clauses(ValidationError("target_file is required for blame search", None)),
                       <<"get_repo">>, d)
             ELSE Tool([status |-> "ok", search_type |-> "blame", target_file |-> target_file,
                        results |-> get_blame(repo.value, target_file, range.value[1], range.value[2])],
                       <<"get_repo", "repo.blame">>, d)
        ELSE Tool([status |-> "ok", search_type |-> "commit_detail",
                   result |-> get_commit_detail(repo.value, query, target_file)],
                  <<"get_repo", "repo.commit">>, d)

\* validation.validate_directory on the directories of the model
validate_directory(path) ==
    IF path = "" THEN Raised(ValidationError("Directory path cannot be empty", None))
    ELSE IF path = MissingDir THEN Raised(ValidationError("Directory not found", None))
    ELSE Returned(path)

\* def index_doc_directory(dirpath: str, db)
index_doc_directory_params == <<"dirpath", "db">>

\* asyncio.to_thread(doc_parser_mod.index_doc_directory, ...) in index_codebase
index_doc_directory_args == <<"str(directory_path)", "database", "sync_progress_callback", "doc_progress_offset", "code_file_count">>

\* a call with more positional arguments than the function has parameters
\* raises TypeError before the function's body runs
TooManyArgs(params, args) == Len(args) > Len(params)

\* server.index_codebase, the parse tasks completing in the order of files
index_codebase(directory, d, model, files) ==
    LET directory_path == validate_directory(directory)
        database == connect(directory_path.value, d, model)
        code_results == index_directory(database.db, model, files)
        doc_results == index_doc_directory(code_results.db, model, disk, doc_file_list, <<>>)
        docstring_results == extract_docstrings_from_code(doc_results.db, model, disk)
    IN  IF ~directory_path.ok THEN Tool(except_clauses(directory_path.exc), <<>>, d)
        ELSE IF ~database.ok
        THEN Tool(except_clauses(database.exc), <<"get_db">>, database.db)
        ELSE IF ~code_results.ok
        THEN Tool(except_clauses(OperationalError("index_directory")),
                  <<"get_db", "index_directory">>, code_results.db)
        ELSE IF TooManyArgs(index_doc_directory_params, index_doc_directory_args)
        THEN Tool(except_clauses(Exc("TypeError", "index_doc_directory() takes 2 positional arguments but 5 were given", None)),
                  <<"get_db", "index_directory">>, code_results.db)
        ELSE IF ~doc_results.ok
        THEN Tool(except_clauses(OperationalError("index_doc_directory")),
                  <<"get_db", "index_directory", "index_doc_directory">>, doc_results.db)
        ELSE IF ~docstring_results.ok
        THEN Tool(except_clauses(OperationalError("extract_docstrings_from_code")),
                  <<"get_db", "index_directory", "index_doc_directory", "extract_docstrings_from_code">>,
                  docstring_results.db)
        ELSE Tool([status |-> "ok", directory |-> directory_path.value,
                   code |-> [total_indexed_files |-> Cardinality(docstring_results.db.files)],
                   documentation |-> [total_indexed_files |-> Cardinality(docstring_results.db.doc_files),
                                      docstrings_extracted |-> Len(docstring_results.results)]],
                  <<"get_db", "index_directory", "index_doc_directory", "extract_docstrings_from_code">>,
                  docstring_results.db)

(***************************************************************************)
(* The tools as calls of a client.  The server process runs with the       *)
(* model of conn; every tool runs to its return between two other calls.   *)
(***************************************************************************)
\* the directories a store tool is called with
StoreDirs == {ProjectDir, MissingDir}

\* the directories search_history is called with
HistoryDirs == {ProjectDir, PlainDir, MissingDir}

Repeat(c, n) == [i \in 1 .. n |-> c]

CodeQueries ==
    {<<>>, <<" ", " ">>, <<"f">>, <<" ", "h", "\n">>, chars("self"), chars(CodePath)}

DocQueries == {<<>>, <<" ">>, <<"f">>}

HistoryQueries ==
    {<<>>, <<"f", "i", "x">>, <<"z", "z", "z">>, <<"H", "E", "A", "D">>,
     SubSeq(Hexsha("a"), 1, 7), Hexsha("b"), <<"1", "2", "3", "4", "5", "6", "7">>}

CodeSearchTypeArgs == {"topic_discovery", "definition", "references", "file_structure", "", "invalid_type"}

HistorySearchTypeArgs == {"commits", "file_history", "blame", "commit_detail", "", "invalid"}

TopKArgs == {None, -1, 1, 100, 101}

TargetFileArgs == {"", CodePath, "unknown.py"}

LineStartArgs == {{}, {0}, {1}, {3}}

LineEndArgs == {{}, {0}, {2}}

\* the calls of search_code: every query with every search_type in the
\* project directory, one query elsewhere, and queries of 1000 and 1001
\* characters
CodeRequests ==
    {r \in [query : CodeQueries, search_type : CodeSearchTypeArgs, directory : StoreDirs] :
        \/ r.directory = ProjectDir /\ Len(r.query) < 1000
        \/ r.search_type \in {"definition", "invalid_type"} /\ Len(r.query) = 1}
    \cup {[query |-> Repeat("x", n), search_type |-> "definition", directory |-> ProjectDir] : n \in {1000, 1001}}

\* the calls of search_docs
DocRequests ==
    {r \in [query : DocQueries, directory : StoreDirs, top_k : TopKArgs] :
        \/ r.directory = ProjectDir
        \/ r.query = <<"f">>}
    \cup {[query |-> Repeat("x", 1001), directory |-> ProjectDir, top_k |-> 1]}

\* the calls of search_history: in the project directory without a line
\* range, every search_type and target_file with the text queries and
\* every query for commit_detail; every line range for blame of a.py and
\* for an unknown search_type, inside and outside a repository; every
\* query and directory for commit_detail
HistoryRequests ==
    {r \in [query : HistoryQueries, directory : HistoryDirs, search_type : HistorySearchTypeArgs, target_file : TargetFileArgs, line_start : LineStartArgs, line_end : LineEndArgs] :
        \/ /\ r.directory = ProjectDir
           /\ r.line_start = {} /\ r.line_end = {}
           /\ r.search_type = "commit_detail" \/ Len(r.query) <= 3
        \/ /\ r.query = <<"f", "i", "x">>
           /\ r.directory \in {ProjectDir, PlainDir}
           /\ r.target_file = CodePath
           /\ r.search_type \in {"blame", "invalid"}
        \/ /\ r.search_type = "commit_detail"
           /\ r.target_file = ""
           /\ r.line_start = {} /\ r.line_end = {}}

\* the orders in which the two parse tasks can complete
CompletionOrders == {file_list, << file_list[2], file_list[1] >>}

\* a tool returns r to a call with the arguments request
ToolReturn(op, request, r) ==
    /\ ix.pc = "idle"
    /\ db' = r.db
    /\ ret' = [Ret(op, "ok", <<>>, r.db # db, hist.stage >= 3, FALSE)
                  EXCEPT !.request = request, !.response = r.response,
                         !.calls = r.calls]
    /\ hist' = [hist EXCEPT !.stage = IF r.db = db THEN @ ELSE 0]
    /\ UNCHANGED <<disk, conn, ix>>

CheckIndexStatus(directory) ==
    ToolReturn("check_index_status", [directory |-> directory],
               check_index_status(directory, db, conn.model))

GetIndexStats(directory) ==
    ToolReturn("get_index_stats", [directory |-> directory],
               get_index_stats(directory, db, conn.model))

IndexCodebase(directory, files) ==
    ToolReturn("index_codebase", [directory |-> directory],
               index_codebase(directory, db, conn.model, files))

SearchCode(query, search_type, directory) ==
    ToolReturn("search_code",
               [query |-> query, search_type |-> search_type, directory |-> directory],
               search_code(query, search_type, directory, db, conn.model))

SearchDocs(query, directory, top_k) ==
    ToolReturn("search_docs",
               [query |-> query, directory |-> directory, top_k |-> top_k],
               search_docs(query, directory, top_k, db, conn.model))

SearchHistory(query, directory, search_type, target_file, line_start, line_end) ==
    ToolReturn("search_history",
               [query |-> query, directory |-> directory, search_type |-> search_type,
                target_file |-> target_file, line_start |-> line_start, line_end |-> line_end],
               search_history(query, directory, search_type, target_file, line_start, line_end, db))

NextTools ==
    \/ \E m \in Models : GetDb(m)
    \/ \E directory \in StoreDirs : CheckIndexStatus(directory)
    \/ \E directory \in StoreDirs : GetIndexStats(directory)
    \/ \E directory \in StoreDirs \cup {""} : \E files \in CompletionOrders :
           IndexCodebase(directory, files)
    \/ \E r \in CodeRequests : SearchCode(r.query, r.search_type, r.directory)
    \/ \E r \in DocRequests : SearchDocs(r.query, r.directory, r.top_k)
    \/ \E r \in HistoryRequests :
           SearchHistory(r.query, r.directory, r.search_type, r.target_file, r.line_start, r.line_end)

SpecTools == Init /\ [][NextTools]_vars

ToolOps == {"check_index_status", "get_index_stats", "index_codebase", "search_code", "search_docs", "search_history"}

\* the uniform error record {error: true, error_type, message, details}
IsErrorRecord(response) ==
    /\ DOMAIN response = {"error", "error_type", "message", "details"}
    /\ response.error = TRUE

\* a dict that reports a failure under the key "error"
ReportsError(x) == "error" \in DOMAIN x

\* C16: whatever a tool returns that reports a failure is the uniform error
\* record; a call on a directory whose store cannot be opened returns one;
\* and no response of search_history with status "ok" carries a failure
\* of git (a blame that failed, a commit that did not resolve) in its
\* result or among its results
C16_UniformErrorRecord ==
    ret.op \in ToolOps =>
        /\ ReportsError(ret.response) => IsErrorRecord(ret.response)
        /\ (ret.request.directory = MissingDir /\ InList("get_db", ret.calls)) =>
               IsErrorRecord(ret.response)
        /\ (ret.op = "search_history" /\ ~ReportsError(ret.response)) =>
               /\ "result" \in DOMAIN ret.response =>
                      ~ReportsError(ret.response.result)
               /\ "results" \in DOMAIN ret.response =>
                      \A i \in 1 .. Len(ret.response.results) :
                          ~ReportsError(ret.response.results[i])

\* C17: index_codebase on the project directory, when the store does not
\* fail, has run index_directory, then index_doc_directory, then
\* extract_docstrings_from_code, and returns a record with status "ok"
C17_IndexCodebaseCompletes ==
    (/\ ret.op = "index_codebase"
     /\ ret.request.directory = ProjectDir
     /\ ~(IsErrorRecord(ret.response) /\ ret.response.error_type = "OperationalError")) =>
        /\ ~ReportsError(ret.response)
        /\ ret.response.status = "ok"
        /\ ret.calls = <<"get_db", "index_directory", "index_doc_directory", "extract_docstrings_from_code">>

\* a query with no character other than whitespace
Blank(query) == \A i \in 1 .. Len(query) : query[i] \in Whitespace

\* the length of a query between its first and its last character that is
\* not whitespace
StrippedLen(query) ==
    IF Blank(query) THEN 0
    ELSE LET solid == {i \in 1 .. Len(query) : query[i] \notin Whitespace}
         IN  Max(solid) - (CHOOSE i \in solid : \A j \in solid : i <= j) + 1

\* the response is a ValidationError record
IsValidationError(response) ==
    IsErrorRecord(response) /\ response.error_type = "ValidationError"

\* C18: search_code and search_docs called with a query that is empty or
\* all whitespace or longer than 1000 characters once stripped, search_code
\* with a search_type other than its four, search_docs with a top_k outside
\* 1..100 other than 0 / None: the tool returns a ValidationError record,
\* has not called get_db, and has left the store as it was
C18_ValidatedBeforeStore ==
    (/\ ret.op \in {"search_code", "search_docs"}
     /\ \/ Blank(ret.request.query)
        \/ StrippedLen(ret.request.query) > 1000
        \/ /\ ret.op = "search_code"
           /\ ret.request.search_type \notin {"topic_discovery", "definition", "references", "file_structure"}
        \/ /\ ret.op = "search_docs"
           /\ ret.request.top_k \notin (1 .. 100) \cup {None}) =>
        /\ IsValidationError(ret.response)
        /\ ~InList("get_db", ret.calls)
        /\ ~ret.wrote

\* search_code has rejected a query of spaces before any store existed
C18_Witness ==
    /\ ret.op = "search_code"
    /\ ret.request.query = <<" ", " ">>
    /\ ret.request.search_type = "definition"
    /\ IsValidationError(ret.response)
    /\ ret.calls = <<>>
    /\ db = EmptyDb

\* C19: search_history called with a search_type other than commits,
\* file_history, blame and commit_detail, or with a line_start or line_end
\* below 1, or with line_start greater than line_end, returns a
\* ValidationError record without having called get_repo, inside a
\* repository and outside one
C19_HistoryValidatedBeforeRepo ==
    (/\ ret.op = "search_history"
     /\ \/ ret.request.search_type \notin {"commits", "file_history", "blame", "commit_detail"}
        \/ \E n \in ret.request.line_start \cup ret.request.line_end : n < 1
        \/ \E s \in ret.request.line_start : \E e \in ret.request.line_end : s > e) =>
        /\ IsValidationError(ret.response)
        /\ ~InList("get_repo", ret.calls)

\* blame of lines 3..2 outside any repository was rejected as invalid
C19_Witness ==
    /\ ret.op = "search_history"
    /\ ret.request.directory = PlainDir
    /\ ret.request.search_type = "blame"
    /\ ret.request.line_start = {3}
    /\ ret.request.line_end = {2}
    /\ IsValidationError(ret.response)
    /\ ret.calls = <<>>

\* C20: search_history called for commit_detail with a query that
\* validate_commit_hash rejects returns a ValidationError record and has
\* not called repo.commit
C20_CommitHashValidated ==
    (/\ ret.op = "search_history"
     /\ ret.request.search_type = "commit_detail"
     /\ ~validate_commit_hash(ret.request.query).ok) =>
        /\ IsValidationError(ret.response)
        /\ ~InList("repo.commit", ret.calls)

\* ---------------------------------------------------------------------
\* get_blame over arbitrary blame data and ranges

MaxBlameLines == 4

\* the hunks repo.blame can yield: one or two lines of one commit each
BlameHunks ==
    {<<c, l>> : c \in {CommitA, CommitB}, l \in {<<"x">>, <<"x", "y">>}}

RECURSIVE BlameLineCount(_)
BlameLineCount(blame_data) ==
    IF blame_data = <<>> THEN 0
    ELSE Len(Head(blame_data)[2]) + BlameLineCount(Tail(blame_data))

\* lines 1-4 and 8 of one commit, lines 5-7 of another
LongBlame ==
    << <<CommitB, <<"x", "y">> >>, <<CommitB, <<"x", "y">> >>,
       <<CommitA, <<"x", "y">> >>, <<CommitA, <<"x">> >>,
       <<CommitB, <<"x">> >> >>

BlameInputs ==
    {b \in UNION {[1 .. n -> BlameHunks] : n \in 0 .. MaxBlameLines} :
        BlameLineCount(b) <= MaxBlameLines} \cup {LongBlame}

BlameRanges(blame_data) ==
    LET bounds == {{}} \cup {{n} : n \in 1 .. BlameLineCount(blame_data) + 1}
    IN  {r \in [line_start : bounds, line_end : bounds] :
            \A s \in r.line_start : \A e \in r.line_end : s <= e}

InitBlame ==
    /\ disk = [p \in Paths |-> [mtime |-> 1, content |-> 1]]
    /\ db = EmptyDb
    /\ conn = [open |-> FALSE, model |-> "M1"]
    /\ ix = IdleIx
    /\ hist = [edits |-> 0, faults |-> 0, stage |-> 0, fault_at |-> 0]
    /\ \E b \in BlameInputs : \E r \in BlameRanges(b) :
          ret = [NoRet EXCEPT !.request =
                    [blame_data |-> b, line_start |-> r.line_start,
                     line_end |-> r.line_end]]

\* get_blame runs on the blame data and range of the request
GetBlame ==
    /\ ret.op = NoRet.op
    /\ ret' = [ret EXCEPT !.op = "get_blame",
                          !.response = blame_entries(ret.request.blame_data,
                                           ret.request.line_start,
                                           ret.request.line_end)]
    /\ UNCHANGED <<disk, db, conn, ix, hist>>

NextBlame == GetBlame

SpecBlame == InitBlame /\ [][NextBlame]_vars

\* the full hash of the commit git blames each line on
RECURSIVE BlamedCommits(_)
BlamedCommits(blame_data) ==
    IF blame_data = <<>> THEN <<>>
    ELSE [i \in 1 .. Len(Head(blame_data)[2]) |-> Head(blame_data)[1].hexsha]
         \o BlamedCommits(Tail(blame_data))

\* the lines of the file that lie inside the requested range
LinesInRange(request) ==
    {n \in 1 .. BlameLineCount(request.blame_data) :
        /\ \A s \in request.line_start : n >= s
        /\ \A e \in request.line_end : n <= e}

C21_Entries(request, g) ==
    LET blamed == BlamedCommits(request.blame_data)
    IN  /\ \A i \in 1 .. Len(g) : g[i].line_start <= g[i].line_end
        /\ \A i \in 1 .. Len(g) - 1 : g[i].line_end < g[i + 1].line_start
        /\ UNION {g[i].line_start .. g[i].line_end : i \in 1 .. Len(g)}
              = LinesInRange(request)
        /\ \A i \in 1 .. Len(g) : \E c \in {CommitA, CommitB} :
              /\ g[i].commit_hash = SubSeq(c.hexsha, 1, 7)
              /\ \A n \in g[i].line_start .. g[i].line_end :
                    blamed[n] = c.hexsha
        /\ \A i \in 1 .. Len(g) - 1 :
              g[i].commit_hash # g[i + 1].commit_hash

\* C21: for every blamed file and every requested range, the entries of
\* get_blame are ordered by line, pairwise disjoint, cover exactly the
\* file's lines inside the range, each span consecutive lines of a single
\* commit, and two adjacent entries never have the same commit
C21_BlameEntries ==
    ret.op = "get_blame" => C21_Entries(ret.request, ret.response)

\* lines 5-7 of one commit and line 8 of another, range 5..8: exactly the
\* two entries (5, 7) and (8, 8); the range cuts the run of lines 1-4 off
C21_Witness ==
    /\ ret.op = "get_blame"
    /\ ret.request.blame_data = LongBlame
    /\ ret.request.line_start = {5}
    /\ ret.request.line_end = {8}
    /\ Len(ret.response) = 2
    /\ ret.response[1].line_start = 5 /\ ret.response[1].line_end = 7
    /\ ret.response[1].commit_hash = SubSeq(CommitA.hexsha, 1, 7)
    /\ ret.response[2].line_start = 8 /\ ret.response[2].line_end = 8
    /\ ret.response[2].commit_hash = SubSeq(CommitB.hexsha, 1, 7)

\* ---------------------------------------------------------------------
\* hybrid_search: reciprocal rank fusion of the two ranked result lists
\* Scores are exact fractions [num, den]; a value rounded to n decimals is
\* the integer count of its 10^-n units.

_RRF_K == 60

\* top_k of the two retrieval legs: the length limit of either ranked list
LEG_TOP_K == 50

Frac(num, den) == [num |-> num, den |-> den]

FracAdd(a, b) == Frac(a.num * b.den + b.num * a.den, a.den * b.den)

FracDiv(a, b) == Frac(a.num * b.den, a.den * b.num)

FracLeq(a, b) == a.num * b.den <= b.num * a.den

FracMin(a, b) == IF FracLeq(a, b) THEN a ELSE b

\* round(value, decimals) in units of 10^-decimals, half to even
round(value, units) ==
    LET a == value.num * units
        q == a \div value.den
        r == a % value.den
    IN  IF 2 * r < value.den THEN q
        ELSE IF 2 * r > value.den THEN q + 1
        ELSE IF q % 2 = 0 THEN q ELSE q + 1

\* a function as an explicit table of its values, each computed once
Table(f) == f @@ << >>

\* the ranks (1-based) at which a list holds sid
RanksOf(list, sid) == {r \in 1 .. Len(list) : list[r] = sid}

\* hybrid_search: one enumerate loop adding 1 / (_RRF_K + rank) per result;
\* a leg returns each symbol id at most once
AddRanks(results, scores) ==
    Table([sid \in DOMAIN scores |->
        IF RanksOf(results, sid) = {} THEN scores[sid]
        ELSE FracAdd(scores[sid],
                 Frac(1, _RRF_K + (CHOOSE r \in RanksOf(results, sid) : TRUE)))])

\* sorted(scores.items(), key = score, reverse = True): stable, so an item
\* follows the items of higher score and the earlier items of equal score
SortedByScore(order, scores) ==
    LET before(i) == {j \in 1 .. Len(order) :
                        \/ ~FracLeq(scores[order[j]], scores[order[i]])
                        \/ /\ j < i
                           /\ FracLeq(scores[order[i]], scores[order[j]])}
        position == Table([i \in 1 .. Len(order) |->
                              Cardinality(before(i)) + 1])
    IN  [k \in 1 .. Len(order) |->
            order[CHOOSE i \in 1 .. Len(order) : position[i] = k]]

\* a confidence that scales every result against the single-source maximum
confidence_same_scale(is_hybrid, score) ==
    FracMin(Frac(1, 1), FracDiv(score, Frac(1, _RRF_K + 1)))

\* hybrid_search: the confidence of a result from its fused score
confidence(is_hybrid, score) ==
    LET max_single_rrf == Frac(1, _RRF_K + 1)
        max_hybrid_rrf == Frac(2 * max_single_rrf.num, max_single_rrf.den)
        single == FracDiv(score, max_single_rrf)
    IN  IF is_hybrid
        THEN FracMin(Frac(1, 1), FracDiv(score, max_hybrid_rrf))
        ELSE FracMin(Frac(1, 1), Frac(single.num * 7, single.den * 10))

\* hybrid_search after the two legs returned their ranked symbol ids
rrf_merge(bm25_results, vec_results, top_k) ==
    LET InSeq(x, s) == \E i \in 1 .. Len(s) : s[i] = x
        ids == {bm25_results[i] : i \in 1 .. Len(bm25_results)}
                   \cup {vec_results[i] : i \in 1 .. Len(vec_results)}
        scores == AddRanks(vec_results,
                      AddRanks(bm25_results, Table([sid \in ids |-> Frac(0, 1)])))
        match_sources(sid) ==
            (IF InSeq(sid, bm25_results) THEN << "bm25" >> ELSE <<>>)
                \o (IF InSeq(sid, vec_results) THEN << "vector" >> ELSE <<>>)
        order == bm25_results
                     \o SelectSeq(vec_results,
                                  LAMBDA sid : ~InSeq(sid, bm25_results))
        ranked == Take(SortedByScore(order, scores), top_k)
    IN  [i \in 1 .. Len(ranked) |->
            LET sid == ranked[i]
                is_hybrid == Len(match_sources(sid)) = 2
            IN  [symbol_id |-> sid,
                 score |-> round(scores[sid], 1000000),
                 match_reason |->
                     IF is_hybrid THEN "hybrid (BM25 + semantic)"
                     ELSE IF InSeq("bm25", match_sources(sid))
                          THEN "keyword match (BM25)"
                          ELSE "semantic match (vector)",
                 confidence |-> round(confidence(is_hybrid, scores[sid]),
                                      1000)]]

\* the lengths of the ranked lists and the top_k values tried
RankLens == {0, 2, LEG_TOP_K}

RankTopK == {1, 10, 100}

\* the ids 1 .. n in rank order, rotated by shift inside 1 .. LEG_TOP_K
Ranked(n, shift) == [i \in 1 .. n |-> ((i + shift - 1) % LEG_TOP_K) + 1]

InitRank ==
    /\ disk = [p \in Paths |-> [mtime |-> 1, content |-> 1]]
    /\ db = EmptyDb
    /\ conn = [open |-> FALSE, model |-> "M1"]
    /\ ix = IdleIx
    /\ hist = [edits |-> 0, faults |-> 0, stage |-> 0, fault_at |-> 0]
    /\ \E nb \in RankLens, nv \in RankLens, shift \in 0 .. LEG_TOP_K - 1,
          top_k \in RankTopK :
          ret = [NoRet EXCEPT !.request =
                    [bm25_results |-> Ranked(nb, 0),
                     vec_results |-> Ranked(nv, shift),
                     top_k |-> top_k]]

\* hybrid_search fuses the two ranked lists of the request
HybridSearch ==
    /\ ret.op = NoRet.op
    /\ ret' = [ret EXCEPT !.op = "hybrid_search",
                          !.response = rrf_merge(ret.request.bm25_results,
                                           ret.request.vec_results,
                                           ret.request.top_k)]
    /\ UNCHANGED <<disk, db, conn, ix, hist>>

NextRank == HybridSearch

SpecRank == InitRank /\ [][NextRank]_vars

\* C22: with K = 60 and ranks in 1..50, every result's confidence lies in
\* [0, 1], a result found by only one source has confidence at most 0.7,
\* and a result found by both sources at rank r in each has strictly
\* higher confidence than a single-source result at the same rank r
\* (confidence is counted in thousandths)
C22_ConfidenceBounds ==
    ret.op = "hybrid_search" =>
        \A i \in 1 .. Len(ret.response) :
            LET res == ret.response[i]
                rb == RanksOf(ret.request.bm25_results, res.symbol_id)
                rv == RanksOf(ret.request.vec_results, res.symbol_id)
            IN  /\ res.confidence >= 0
                /\ res.confidence <= 1000
                /\ (rb = {} \/ rv = {}) => res.confidence <= 700
                /\ (rb # {} /\ rb = rv) =>
                      \A r \in rb :
                          res.confidence >
                              round(confidence(FALSE, Frac(1, _RRF_K + r)),
                                    1000)

\* one response holds a result found by both sources at rank 2 in each and
\* a result found by BM25 alone at rank 3, both below the caps
C22_Witness ==
    /\ ret.op = "hybrid_search"
    /\ \E i, j \in 1 .. Len(ret.response) :
          /\ RanksOf(ret.request.bm25_results, ret.response[i].symbol_id) = {2}
          /\ RanksOf(ret.request.vec_results, ret.response[i].symbol_id) = {2}
          /\ ret.response[i].confidence = 984
          /\ RanksOf(ret.request.bm25_results, ret.response[j].symbol_id) = {3}
          /\ RanksOf(ret.request.vec_results, ret.response[j].symbol_id) = {}
          /\ ret.response[j].confidence = 678

\* ---------------------------------------------------------------------
\* search_documentation with include_context

\* len(content) of the chunk contents README.md yields
ContentLen(content) ==
    LET subs == UNION {{s : s \in {sec.subs[i] : i \in 1 .. Len(sec.subs)}} :
                   sec \in UNION {{parse_markdown_sections(v)[i] :
                                      i \in 1 .. Len(parse_markdown_sections(v))} :
                                  v \in Versions(DocPath)}}
    IN  (CHOOSE s \in subs : s.content = content).len

\* content[:n]: the text it is cut from and the number of characters kept
Prefix(content, n) ==
    [of |-> content,
     chars |-> IF ContentLen(content) < n THEN ContentLen(content) ELSE n]

DocFilePathOf(d, doc_file_id) ==
    (CHOOSE f \in d.doc_files : f.id = doc_file_id).path

\* fetchone() on a query without ORDER BY: whichever matching row the
\* engine yields first, here the one of lowest or of highest rowid
FetchOne(rows, first) ==
    CHOOSE r \in rows : \A y \in rows :
        IF first = "lowest" THEN r.id <= y.id ELSE r.id >= y.id

\* _add_context_chunks, one result: [context, value]
context_parts(result, d, first) ==
    LET rows == {dc \in d.doc_chunks :
                    /\ \E df \in d.doc_files :
                          df.id = dc.doc_file_id /\ df.path = result.source_file
                    /\ dc.line_start = result.line_start
                    /\ dc.line_end = result.line_end}
        row == FetchOne(rows, first)
        prev == ChunkRows(d, row.doc_file_id, row.chunk_index - 1)
        next_chunk == ChunkRows(d, row.doc_file_id, row.chunk_index + 1)
    IN  IF rows = {} THEN <<>>
        ELSE (IF prev # {}
              THEN << [type |-> "previous",
                       content |-> Prefix(FetchOne(prev, first).content, 200)] >>
              ELSE <<>>)
             \o << [type |-> "current",
                    content |-> Prefix(result.content,
                                       ContentLen(result.content))] >>
             \o (IF next_chunk # {}
                 THEN << [type |-> "next",
                          content |-> Prefix(FetchOne(next_chunk, first).content,
                                             200)] >>
                 ELSE <<>>)

\* queries._add_context_chunks
_add_context_chunks(results, d, first) ==
    {[content |-> r.content, source_file |-> r.source_file,
      section_title |-> r.section_title, line_start |-> r.line_start,
      line_end |-> r.line_end, context |-> context_parts(r, d, first)] :
     r \in results}

\* queries.search_documentation(query, db, include_context = True)
search_documentation_context(query, d, first) ==
    LET bm25_results == {c \in d.doc_chunks :
                            /\ \E e \in d.doc_chunks_fts :
                                  e.rowid = c.id /\ chars(e.section_title) = query
                            /\ \E f \in d.doc_files : f.id = c.doc_file_id}
        vec_results == {c \in d.doc_chunks :
                            /\ \E e \in d.doc_embeddings : e.chunk_id = c.id
                            /\ \E f \in d.doc_files : f.id = c.doc_file_id}
        results == {[content |-> c.content,
                     source_file |-> DocFilePathOf(d, c.doc_file_id),
                     section_title |-> c.section_title,
                     line_start |-> c.line_start, line_end |-> c.line_end] :
                    c \in bm25_results \cup vec_results}
    IN  IF d.vec_dim = 0
        THEN Raised(OperationalError("no such table: doc_embeddings"))
        ELSE Returned(_add_context_chunks(results, d, first))

\* search_documentation with context, a call
SearchDocumentation(query, first) ==
    /\ ix.pc = "idle"
    /\ conn.open
    /\ LET r == search_documentation_context(query, db, first)
       IN  ret' = [Ret("search_documentation",
                       IF r.ok THEN "ok" ELSE "raised", <<>>, FALSE,
                       hist.stage >= 3, FALSE)
                      EXCEPT !.request = query,
                             !.response = IF r.ok THEN r.value ELSE {}]
    /\ UNCHANGED <<disk, db, conn, ix, hist>>

NextContext ==
    \/ \E m \in Models : GetDb(m)
    \/ \E p \in Paths : \E t \in 1 .. MaxTime : TouchFile(p, t)
    \/ \E p \in Paths : \E v \in Versions(p) : \E t \in 1 .. MaxTime :
           WriteFile(p, v, t)
    \/ IndexDocDirectory
    \/ \E query \in DocQueries \ {<<>>} : \E first \in {"lowest", "highest"} :
           SearchDocumentation(query, first)

SpecContext == Init /\ [][NextContext]_vars

\* the stored chunk a result was built from
ChunkOf(result, d) ==
    CHOOSE dc \in d.doc_chunks :
        /\ \E df \in d.doc_files :
              df.id = dc.doc_file_id /\ df.path = result.source_file
        /\ dc.content = result.content
        /\ dc.line_start = result.line_start
        /\ dc.line_end = result.line_end

\* the content of the context entries of the given type
ContextOf(result, type) ==
    {result.context[i].content :
        i \in {j \in 1 .. Len(result.context) : result.context[j].type = type}}

\* the chunks of the file of chunk dc at chunk_index dc.chunk_index + delta
Adjacent(d, dc, delta) ==
    {Prefix(x.content, 200) :
        x \in ChunkRows(d, dc.doc_file_id, dc.chunk_index + delta)}

\* C23: the 'previous' and 'next' entries of a result are the contents of
\* the chunks whose chunk_index is one below and one above that of the
\* result's own chunk in the same doc file, also when several chunks of the
\* file share one line range
C23_ContextAdjacent ==
    ret.op = "search_documentation" =>
        \A result \in ret.response :
            /\ ContextOf(result, "previous") = Adjacent(db, ChunkOf(result, db), -1)
            /\ ContextOf(result, "next") = Adjacent(db, ChunkOf(result, db), 1)

\* ---------------------------------------------------------------------
\* index_directory and its progress callback

\* index_directory on a directory whose walk finds no candidate file:
\* it returns [] before the first progress call
IndexDirectoryEmpty ==
    /\ ix.pc = "idle"
    /\ conn.open
    /\ ret' = [Ret("index_directory", "ok", <<>>, FALSE, hist.stage >= 3, FALSE)
                  EXCEPT !.request = PlainDir, !.calls = <<>>]
    /\ UNCHANGED <<disk, db, conn, ix, hist>>

NextProgress ==
    \/ Next
    \/ IndexDirectoryEmpty

SpecProgress == Init /\ [][NextProgress]_vars

\* the candidate files of the run that returned
CandidateFiles ==
    IF ret.request = ProjectDir
    THEN {file_list[i] : i \in 1 .. Len(file_list)}
    ELSE {}

\* the positions in calls of the progress calls with the given text
CallsWith(calls, text) ==
    {i \in 1 .. Len(calls) : calls[i].message.text = text}

\* C24: in every run of index_directory with a progress callback, also
\* over a tree without candidate files, the callback is invoked at least
\* once per candidate file in the parse phase, once at each phase boundary
\* (before embedding, before persisting) and once at completion, after the
\* last file is persisted
C24_ProgressCalls ==
    (ret.op = "index_directory" /\ ret.status = "ok") =>
        /\ \A f \in CandidateFiles : \E i \in CallsWith(ret.calls, "Parsing: ") :
              ret.calls[i].message.basename_of = f
        /\ \E e \in CallsWith(ret.calls, "Generating embeddings...") :
              \E p \in CallsWith(ret.calls, "Storing to database...") :
                  /\ \A i \in CallsWith(ret.calls, "Parsing: ") : i < e
                  /\ e < p
                  /\ p < Len(ret.calls)

\* the progress calls of the run in progress, or of the run that returned
ProgressCalls ==
    IF ix.pc # "idle" THEN ix.progress
    ELSE IF ret.op = "index_directory" THEN ret.calls ELSE <<>>

\* C30: across one run of index_directory the (current, total) pairs passed
\* to the progress callback have a constant total, the number of candidate
\* files, and a current that never decreases and never exceeds total, for
\* every completion order of the parse workers
C30_ProgressMonotonic ==
    /\ \A i \in 1 .. Len(ProgressCalls) :
          /\ ProgressCalls[i].total = Len(file_list)
          /\ ProgressCalls[i].current >= 0
          /\ ProgressCalls[i].current <= ProgressCalls[i].total
    /\ \A i \in 1 .. Len(ProgressCalls) - 1 :
          ProgressCalls[i].current <= ProgressCalls[i + 1].current

\* a run returned whose parse tasks completed in the reverse of the order
\* they were submitted in, after five progress calls
C30_Witness ==
    /\ ret.op = "index_directory"
    /\ ret.status = "ok"
    /\ Len(ret.calls) = Len(file_list) + 3
    /\ \A i \in 1 .. Len(file_list) :
          /\ ret.calls[i + 1].message.basename_of
                = file_list[Len(file_list) + 1 - i]
          /\ ret.calls[i + 1].current = i

\* C25: in index_directory the slice of all_embeddings handed to a file
\* holds, position by position, the vectors computed from the texts of that
\* file's own symbols, i.e. it starts at the sum of the symbol counts of the
\* files persisted before it
C25_SliceIsOwnEmbeddings ==
    (InPersist /\ ix.step \in {3, 4}) =>
        ix.embs = embed_texts_batch(conn.model,
                      [i \in 1 .. Len(CurEntry.parsed_data.symbols) |->
                          embed_input(CurEntry.parsed_data.symbols[i])])

\* the symbol rows the store holds for the file at path
SymbolRowsOf(d, path) ==
    {r \in d.symbols : \E f \in d.files : f.id = r.file_id /\ f.path = path}

\* C26: for every indexed file the symbols_indexed of its result equals the
\* number of symbol rows the store holds for the file afterwards, and each
\* extracted symbol is passed on once to be embedded and upserted, also when
\* symbols are nested inside containers
C26_SymbolsCountedOnce ==
    /\ (ret.op = "index_directory" /\ ret.status = "ok") =>
          \A i \in 1 .. Len(ret.results) :
              ~ret.results[i].skipped =>
                  ret.results[i].symbols_indexed
                      = Cardinality(SymbolRowsOf(db, ret.results[i].file))
    /\ \A i \in 1 .. Len(ix.parsed_files) :
          LET symbols == ix.parsed_files[i].parsed_data.symbols
          IN  \A j, k \in 1 .. Len(symbols) : symbols[j] = symbols[k] => j = k

\* the chunks of the doc file at path that the store holds with an
\* embedding, by (chunk_index, content)
DocState(d, path) ==
    {<<c.chunk_index, c.content>> :
        c \in {x \in d.doc_chunks :
                  /\ \E f \in d.doc_files : f.id = x.doc_file_id /\ f.path = path
                  /\ \E e \in d.doc_embeddings : e.chunk_id = x.id}}

\* the chunks index_doc_file derives from the file on disk
NewDocState(path) ==
    LET chunks == StoredChunks(parse_markdown_sections(disk[path].content))
    IN  {<<i - 1, chunks[i].content>> : i \in 1 .. Len(chunks)}

\* a pass over the unchanged tree skips a source file whose derived rows
\* were left incomplete by a storage failure
C27_SourceSkipped ==
    \E i \in 1 .. Len(ix.parsed_files) :
        LET e == ix.parsed_files[i]
        IN  /\ hist.edits = 0
            /\ hist.fault_at # 0
            /\ ~e.error
            /\ FileRows(ix.db0, e.fpath) # {}
            /\ FileState(ix.db0, e.fpath) # NewFileState(e.fpath, conn.model)
            /\ e.parsed_data.skipped

\* index_doc_directory skipped a doc file of the unchanged tree whose
\* chunks are incomplete
C27_DocSkipped ==
    /\ ret.op = "index_doc_directory"
    /\ ret.status = "ok"
    /\ hist.edits = 0
    /\ \E i \in 1 .. Len(ret.results) :
          /\ ret.results[i].skipped
          /\ DocState(db, ret.results[i].file) # NewDocState(ret.results[i].file)

\* C27: a source or doc file whose indexing failed or was interrupted after
\* its file row was written is not treated as up to date: the next pass
\* over the unchanged file indexes it again instead of skipping it
C27_InterruptedFileReindexed == ~C27_SourceSkipped /\ ~C27_DocSkipped

\* C28: in every committed state of the store, whatever sequence of index,
\* re-index and delete_file_data / delete_doc_file_data calls led to it,
\* every symbol_embeddings row refers to an existing symbol row, every
\* doc_embeddings row to an existing doc_chunks row, and no id has more
\* than one embedding row
C28_NoOrphanEmbeddings ==
    /\ \A e \in db.symbol_embeddings : \E r \in db.symbols : r.id = e.symbol_id
    /\ \A e \in db.doc_embeddings : \E c \in db.doc_chunks : c.id = e.chunk_id
    /\ \A e1, e2 \in db.symbol_embeddings :
          e1.symbol_id = e2.symbol_id => e1 = e2
    /\ \A e1, e2 \in db.doc_embeddings : e1.chunk_id = e2.chunk_id => e1 = e2

\* a re-index has just deleted the symbols of a file together with their
\* embedding rows, while the embeddings of the doc chunks remain
C28_Witness ==
    /\ InPersist
    /\ ix.step = 3
    /\ db.doc_embeddings # {}
    /\ \E e \in ix.db0.symbol_embeddings :
          /\ e \notin db.symbol_embeddings
          /\ \A r \in db.symbols : r.id # e.symbol_id

\* ---------------------------------------------------------------------
\* doc_parser.chunk_content on character sequences, one loop iteration at
\* a time.  Indices are 0-based as in the source.

MaxContentLen == 5

MaxChunkSize == 4

\* the iterations of the while loop that are followed
MaxChunks == 3

ContentChars == {"a", ".", " ", "\n"}

\* a slice index as str slicing and str.rfind read it
SliceIndex(i, n) ==
    IF i < 0 THEN (IF i + n < 0 THEN 0 ELSE i + n)
    ELSE IF i > n THEN n ELSE i

\* content[start:end]
StrSlice(content, start, end) ==
    SubSeq(content, SliceIndex(start, Len(content)) + 1,
           SliceIndex(end, Len(content)))

\* content.rfind(sub, start, end)
rfind(content, sub, start, end) ==
    LET lo == SliceIndex(start, Len(content))
        hi == SliceIndex(end, Len(content))
        found == {i \in lo .. hi - Len(sub) :
                     SubSeq(content, i + 1, i + Len(sub)) = sub}
    IN  IF found = {} THEN -1 ELSE Max(found)

\* chunk_content, the end the loop body settles on for the window at start
chunk_end(content, max_size, start) ==
    LET end == start + max_size
        sentence == rfind(content, << ".", " " >>, start, end)
        newline == rfind(content, << "\n" >>, start, end)
    IN  IF end < Len(content)
        THEN IF sentence > start + (max_size \div 2) THEN sentence + 1
             ELSE IF newline > start + (max_size \div 2) THEN newline
             ELSE end
        ELSE end

\* chunk_content, the start of the next iteration
next_start(content, max_size, overlap, start) ==
    LET end == chunk_end(content, max_size, start)
    IN  IF end < Len(content) THEN end - overlap ELSE Len(content)

InitChunk ==
    /\ disk = [p \in Paths |-> [mtime |-> 1, content |-> 1]]
    /\ db = EmptyDb
    /\ conn = [open |-> FALSE, model |-> "M1"]
    /\ ix = IdleIx
    /\ hist = [edits |-> 0, faults |-> 0, stage |-> 0, fault_at |-> 0]
    /\ \E n \in 0 .. MaxContentLen : \E content \in [1 .. n -> ContentChars] :
       \E max_size \in 1 .. MaxChunkSize : \E overlap \in 0 .. max_size - 1 :
          ret = [NoRet EXCEPT !.request =
                    [content |-> content, max_size |-> max_size,
                     overlap |-> overlap]]

\* chunk_content is called: content that fits is returned whole
ChunkContentCall ==
    /\ ret.op = NoRet.op
    /\ ret' = IF Len(ret.request.content) <= ret.request.max_size
              THEN [ret EXCEPT !.op = "chunk_content_returned",
                               !.response = [start |-> 0,
                                             chunks |-> << ret.request.content >>]]
              ELSE [ret EXCEPT !.op = "chunk_content",
                               !.response = [start |-> 0, chunks |-> <<>>]]
    /\ UNCHANGED <<disk, db, conn, ix, hist>>

\* one iteration of the while loop
ChunkContentIterate ==
    /\ ret.op = "chunk_content"
    /\ ret.response.start < Len(ret.request.content)
    /\ Len(ret.response.chunks) < MaxChunks
    /\ LET content == ret.request.content
           start == ret.response.start
           end == chunk_end(content, ret.request.max_size, start)
           chunk == strip(StrSlice(content, start, end))
       IN  ret' = [ret EXCEPT
                      !.response.chunks =
                          IF chunk # <<>> THEN Append(@, chunk) ELSE @,
                      !.response.start =
                          next_start(content, ret.request.max_size,
                                     ret.request.overlap, start)]
    /\ UNCHANGED <<disk, db, conn, ix, hist>>

\* the loop condition fails and chunks is returned
ChunkContentReturn ==
    /\ ret.op = "chunk_content"
    /\ ret.response.start >= Len(ret.request.content)
    /\ ret' = [ret EXCEPT !.op = "chunk_content_returned"]
    /\ UNCHANGED <<disk, db, conn, ix, hist>>

NextChunk ==
    \/ ChunkContentCall
    \/ ChunkContentIterate
    \/ ChunkContentReturn

SpecChunk == InitChunk /\ [][NextChunk]_vars

\* C29: for every content and every max_size > 0 and 0 <= overlap <
\* max_size, chunk_content terminates, each iteration of its loop strictly
\* increasing start, and every chunk it collects has length at most max_size
C29_ChunkingTerminates ==
    [][/\ (ret.op = "chunk_content" /\ ret'.op = "chunk_content") =>
              ret'.response.start > ret.response.start
       /\ ret'.op \in {"chunk_content", "chunk_content_returned"} =>
              \A i \in 1 .. Len(ret'.response.chunks) :
                  Len(ret'.response.chunks[i]) <= ret'.request.max_size]_vars

====
